---- MODULE Spec2Model ----
(***************************************************************************)
(* Model of go-installapplications: the retry store and the privileged     *)
(* driver (RunDaemon), the single download with retries                    *)
(* (DownloadFileWithRetries), the concurrent downloader                    *)
(* (DownloadMultipleWithCleanup), the manifest load and its validation,    *)
(* the helper's socket server with the driver's client, and the redirect   *)
(* setting of the HTTP clients.                                            *)
(*                                                                         *)
(* The specifications share the variables; each leaves the variables of    *)
(* the parts it does not run at their idle values.                         *)
(*   SpecDriver    - supervisor-restarted runs of RunDaemon over the       *)
(*                   persistent retry record                               *)
(*   SpecFetch     - one DownloadFileWithRetries call                      *)
(*   SpecFetchMany - one DownloadMultipleWithCleanup call, one goroutine   *)
(*                   per item                                              *)
(*   SpecRun       - the phases of one run of RunDaemon after the setup:   *)
(*                   Manager.ProcessItems for preflight and                *)
(*                   setupassistant, processUserlandPhase, the background  *)
(*                   process table and its drain, the exit                 *)
(*   SpecEngine    - the same run without userland items, over manifests   *)
(*                   with every fail policy for every operation            *)
(*   SpecLoad      - getBootstrap: the manifest comes from a URL or from   *)
(*                   the managed profile, with or without validation       *)
(*   SpecAgent     - the helper (RunAgent, startAgentIPCServer) serving    *)
(*                   connections of arbitrary clients on its socket        *)
(*   SpecIPC       - the helper and the driver's userland phase:           *)
(*                   waitForAgentSocket, then one callAgent per item       *)
(*   SpecRedirect  - the HTTP clients of one run and the redirect setting  *)
(*   SpecSource    - main and ReadFromProfile: which of the profile, the   *)
(*                   --jsonurl flag and the embedded manifest is used      *)
(*   SpecStandalone - runCompleteBootstrap of the standalone mode          *)
(*   SpecManager   - one Manager called for preflight and setupassistant,  *)
(*                   with the destination files and the cleanup trackers   *)
(*   SpecFetchManyFair - SpecFetchMany for every maxConcurrency, with weak *)
(*                   fairness of the goroutines                            *)
(* In SpecRun the helper's side of a delegated userscript is the process   *)
(* table of the installer it makes for the request.                        *)
(* Environment assumptions: reads, writes and removals of local files      *)
(* succeed unless stated otherwise (the retry record may be unparsable,    *)
(* a download may fail before or while the body is written).               *)
(***************************************************************************)
EXTENDS Integers, Sequences, FiniteSets, TLC

VARIABLES
    \* ---- retry store and driver ----
    retryRec,      \* the .retry-state file: NoRecord, Corrupt or a RetryState
    now,           \* wall clock read by time.Now()
    dpc,           \* position of the driver process in RunDaemon
    exitCode,      \* code passed to os.Exit by the last finished run
    gated,         \* the last finished run left at the should-retry gate
    entryRec,      \* retry record as found at the entry of the current run
    storeOp,       \* retry-store call made by the last step: [op, reason]
    loaded,        \* the manifest was loaded in the current run
    phasesRun,     \* phases whose items were downloaded/dispatched this run
    outcome,       \* how the current run ended
    streak,        \* runs past the gate in an all-failing chain from an absent record; -1 = no such chain
    \* ---- single fetch ----
    fpc,           \* position inside DownloadFileWithRetries
    freq,          \* arguments of the call and the client defaults
    fretries,      \* effective retries after the defaults were applied
    fattempt,      \* loop variable of utils.Retry
    fslept,        \* number of time.Sleep(delay) calls
    fcalls,        \* number of downloadOnce calls
    fokDownloads,  \* number of downloadOnce calls that returned nil
    fverifies,     \* number of VerifyFileHash calls
    fserved,       \* body served to the last successful downloadOnce
    ffile,         \* content of the destination file
    fresult,       \* result of the call
    \* ---- concurrent downloader ----
    items,         \* argument items
    cfg,           \* cleanup options of the configuration
    maxConc,       \* argument maxConcurrency
    mpc,           \* position of the calling goroutine
    wpc,           \* position of each worker goroutine
    werr,          \* what DownloadFileWithRetries returned to each worker
    results,       \* the results slice
    tracker,       \* CleanupTracker.files
    files,         \* content of each destination path
    doneOrder,     \* indexes in the order the workers finished
    \* ---- phases of a run ----
    manifest,      \* the bootstrap: items of preflight, setupassistant, userland
    hostArch,      \* architecture of the host
    trackBackgroundProcesses,  \* cfg.TrackBackgroundProcesses
    agentTrack,    \* cfg.TrackBackgroundProcesses of the agent process
    rpc,           \* position of the driver inside the phases of the run
    phaseName,     \* phase being processed
    filteredItems, \* items of the phase that are downloaded and dispatched
    idx,           \* position of the dispatch loop in filteredItems
    backgroundProcessCount,    \* local counter of the dispatch loop
    fetched,       \* names of the items handed to the downloader
    dlFailed,      \* names of the items whose download failed
    dispatchLog,   \* begin and return of every dispatch, in order
    phaseRet,      \* what each phase returned
    preflightRun,  \* how the preflight script ran: exit code or SpawnFailed
    processes,     \* ProcessTracker.processes
    pstate,        \* state of the process started for each item
    runners,       \* process table of the installer made for each RunUserScript
    snapshot,      \* WaitForCompletion's copy of the process table
    signalled,     \* waiters that have sent on the done channel
    completed,     \* WaitForCompletion's counter of received signals
    done,          \* number of signals buffered in the done channel
    errors,        \* WaitForCompletion's errors slice
    drainRet,      \* how the last WaitForCompletion returned
    runResult,     \* error that ends the run
    runExit,       \* exit code of the run
    sysCleanup,    \* utils.Cleanup was performed
    sockPath,      \* what waitForAgentSocket returned to processUserlandPhase
    \* ---- loading the manifest ----
    lpc,           \* position of RunDaemon around setupBootstrapAndComponents
    lcfg,          \* cfg.JSONURL is set, cfg.SkipValidation
    ldoc,          \* the document at the source of the manifest
    ldownload,     \* the download of the remote document succeeded
    lvalid,        \* what ValidateBootstrap returned, if it was called
    lerr,          \* error returned by getBootstrap
    lbootstrap,    \* bootstrap returned by getBootstrap
    lphases,       \* processSystemPhases was entered
    lexit,         \* exit code of a run that ended in the setup
    \* ---- the helper, its socket and the driver's client ----
    apc,           \* the helper process: down, serving or exited
    closers,       \* goroutines started to close the done channel
    doneClosed,    \* the done channel of RunAgent is closed
    conns,         \* the connections made to the socket, in order
    peer,          \* who listens on the socket path: none, other or helper
    upc,           \* position of the driver in processUserlandPhase
    wtimeout,      \* cfg.WaitForAgentTimeout, in seconds
    welapsed,      \* time.Since(start) of waitForAgentSocket, in seconds
    wret,          \* how waitForAgentSocket returned
    witems,        \* types of the userland items
    widx,          \* position of the loop over the userland items
    wcmd,          \* command of the current callAgent
    wcur,          \* connection of the current callAgent
    wphase,        \* what processUserlandPhase returned
    \* ---- redirect policy ----
    hpc,           \* position of RunDaemon between setup and the phases
    hcfg,          \* cfg.JSONURL is set, cfg.FollowRedirects
    hserver,       \* answer of the server for each URL
    hmanifestUrl,  \* cfg.JSONURL
    hitemUrl,      \* URL of an item of the manifest
    hbootstrapClient,  \* the download client made by getBootstrap
    hdownloader,   \* the download client made for the Manager
    hmanifestRes,  \* result of the manifest download
    hitemRes,      \* result of the item download
    \* ---- source of the manifest ----
    spc,           \* position of main and of the run it starts
    sprefs,        \* the managed-configuration document
    sflag,         \* --jsonurl: "unset", "url" or "empty"
    scfg,          \* cfg.JSONURL ("" or who set it), cfg.bootstrapConfig is set
    sresult,       \* profileResult of main
    sreadErr,      \* error returned by ReadFromProfile
    ssource,       \* where getBootstrap took the manifest from
    serr,          \* error of setupBootstrapAndComponents
    sphases,       \* the phases were started
    sexit,         \* exit code of the run, -1 while it runs
    \* ---- standalone run ----
    tpc,           \* position of runCompleteBootstrap
    tcfg,          \* cfg.WithPreflight
    tmanifest,     \* number of items of each phase of the manifest
    tphase,        \* phase runCompleteBootstrap is at (index into Phases)
    tidx,          \* items of the current phase dispatched so far
    tlog,          \* calls, dispatches and returns of ProcessItems, in order
    tret,          \* what runCompleteBootstrap returned
    texit,         \* exit code, -1 while the process runs
    \* ---- phase engine and its cleanup tracker ----
    gpc,           \* position of the caller and of Manager.ProcessItems
    gcfg,          \* CleanupOnSuccess, CleanupOnFailure, KeepFailedFiles
    gmanifest,     \* items of preflight and of setupassistant
    gphase,        \* phaseName of the current call
    gitems,        \* filteredItems of the current call
    gidx,          \* loop variable of the dispatch loop
    gtracker,      \* m.cleanupTracker, made once by NewManager
    gdl,           \* the tracker of the last DownloadMultipleWithCleanup
    gfiles,        \* content of every destination path
    gtrackedIn,    \* paths handed to TrackFile in the call of each phase
    gfetched,      \* names of the items handed to the downloader
    gdispatched,   \* names of the items whose handler was called
    gret,          \* what ProcessItems returned for each phase
    gop            \* last CleanupAll: phase and the files found before it

driverVars == <<retryRec, now, dpc, exitCode, gated, entryRec, storeOp, loaded,
                phasesRun, outcome, streak>>
fetchVars  == <<fpc, freq, fretries, fattempt, fslept, fcalls, fokDownloads,
                fverifies, fserved, ffile, fresult>>
manyVars   == <<items, cfg, maxConc, mpc, wpc, werr, results, tracker, files,
                doneOrder>>
inputVars  == <<manifest, hostArch, trackBackgroundProcesses, agentTrack>>
loopVars   == <<filteredItems, idx, backgroundProcessCount>>
histVars   == <<fetched, dlFailed, dispatchLog, preflightRun>>
procVars   == <<processes, pstate, runners>>
drainVars  == <<snapshot, signalled, completed, done, errors, drainRet>>
flowVars   == <<rpc, phaseName, phaseRet, runResult>>
exitVars   == <<runExit, sysCleanup>>
runVars    == <<inputVars, loopVars, histVars, procVars, drainVars, flowVars,
                exitVars, sockPath>>
loadVars   == <<lpc, lcfg, ldoc, ldownload, lvalid, lerr, lbootstrap, lphases,
                lexit>>
agentVars  == <<apc, closers, doneClosed>>
driverIpcVars == <<upc, wtimeout, welapsed, wret, witems, widx, wcmd, wcur,
                   wphase>>
ipcVars    == <<agentVars, conns, peer, driverIpcVars>>
redirVars  == <<hpc, hcfg, hserver, hmanifestUrl, hitemUrl, hbootstrapClient,
                hdownloader, hmanifestRes, hitemRes>>
sourceVars == <<spc, sprefs, sflag, scfg, sresult, sreadErr, ssource, serr,
                sphases, sexit>>
standaloneVars == <<tpc, tcfg, tmanifest, tphase, tidx, tlog, tret, texit>>
mgrVars    == <<gpc, gcfg, gmanifest, gphase, gitems, gidx, gtracker, gdl,
                gfiles, gtrackedIn, gfetched, gdispatched, gret, gop>>
moreVars   == <<sourceVars, standaloneVars, mgrVars>>
sideVars   == <<loadVars, ipcVars, redirVars, moreVars>>
vars       == <<driverVars, fetchVars, manyVars, runVars, sideVars>>

(***************************************************************************)
(* Bounds                                                                  *)
(***************************************************************************)
MaxTime      == 2   \* clock values 0..MaxTime
MaxInitCount == 4   \* largest count of a record found at the first entry
MaxCount     == 8   \* no run is started once the count reached this value

(***************************************************************************)
(* Retry store (pkg/retry/counter.go)                                      *)
(***************************************************************************)
MaxRetries == 3

NoRecord == [kind |-> "absent"]
Corrupt  == [kind |-> "corrupt"]

RetryState(count, first, last, reason) ==
    [kind |-> "record", Count |-> count, FirstTry |-> first,
     LastTry |-> last, Reason |-> reason]

\* readRetryState: an error for a missing or unparsable file
readRetryStateFails(rec) == rec.kind # "record"

GetRetryCountUnreadableIsFull(rec) ==
    IF readRetryStateFails(rec) THEN MaxRetries ELSE rec.Count
GetRetryCount(rec) == IF readRetryStateFails(rec) THEN 0 ELSE rec.Count

ShouldRetryNoCap(rec) == TRUE
ShouldRetryOffByOne(rec) == ~(GetRetryCount(rec) > MaxRetries)
ShouldRetry(rec) == ~(GetRetryCount(rec) >= MaxRetries)

IncrementResetsFirstTry(rec, reason, t) ==
    RetryState(GetRetryCount(rec) + 1, t, t, reason)
IncrementRetryCount(rec, reason, t) ==
    LET state == IF readRetryStateFails(rec)
                 THEN RetryState(0, t, t, "")
                 ELSE rec
    IN  RetryState(state.Count + 1, state.FirstTry, t, reason)

ClearRetryCount(rec) == NoRecord

NoOp == [op |-> "none", reason |-> ""]
IncOp(reason) == [op |-> "increment", reason |-> reason]
ClearOp == [op |-> "clear", reason |-> ""]

(***************************************************************************)
(* Driver (RunDaemon)                                                      *)
(***************************************************************************)
InitRecords ==
    {NoRecord, Corrupt} \cup
    {RetryState(c, 0, 0, r) : c \in 1..MaxInitCount,
                              r \in {"daemon started", "setup failed"}}

DriverInit ==
    /\ retryRec \in InitRecords
    /\ now = 0
    /\ dpc = "entry"
    /\ exitCode = 0
    /\ gated = FALSE
    /\ entryRec = retryRec
    /\ storeOp = NoOp
    /\ loaded = FALSE
    /\ phasesRun = {}
    /\ outcome = "none"
    /\ streak = IF retryRec = NoRecord THEN 0 ELSE -1

\* utils.Exit: system cleanup, then os.Exit(code).  The cleanup removes the
\* launch-service records and cfg.InstallPath; the retry record lives under
\* /var/tmp/go-installapplications, outside the default InstallPath, and is
\* not touched.
Exit(code, how) ==
    /\ dpc' = "exited"
    /\ exitCode' = code
    /\ outcome' = how

\* time passes
Tick ==
    /\ now < MaxTime
    /\ now' = now + 1
    /\ storeOp' = NoOp
    /\ UNCHANGED <<retryRec, dpc, exitCode, gated, entryRec, loaded, phasesRun,
                   outcome, streak>>
    /\ UNCHANGED <<fetchVars, manyVars, runVars, sideVars>>

\* RunDaemon, lines 115-118: the gate denies the run
RunDaemonGateDenied ==
    /\ dpc = "entry"
    /\ ~ShouldRetry(retryRec)
    /\ entryRec' = retryRec
    /\ gated' = TRUE
    /\ loaded' = FALSE
    /\ phasesRun' = {}
    /\ Exit(0, "max retries exceeded")
    /\ storeOp' = NoOp
    /\ UNCHANGED <<retryRec, now, streak>>
    /\ UNCHANGED <<fetchVars, manyVars, runVars, sideVars>>

\* RunDaemon, lines 115-124: the gate passes, IncrementRetryCount("daemon started")
RunDaemonStart ==
    /\ dpc = "entry"
    /\ ShouldRetry(retryRec)
    /\ GetRetryCount(retryRec) < MaxCount
    /\ entryRec' = retryRec
    /\ gated' = FALSE
    /\ loaded' = FALSE
    /\ phasesRun' = {}
    /\ retryRec' = IncrementRetryCount(retryRec, "daemon started", now)
    /\ storeOp' = IncOp("daemon started")
    /\ dpc' = "setup"
    /\ outcome' = "none"
    /\ streak' = IF retryRec = NoRecord THEN 1
                 ELSE IF streak >= 0 THEN streak + 1 ELSE -1
    /\ UNCHANGED <<now, exitCode>>
    /\ UNCHANGED <<fetchVars, manyVars, runVars, sideVars>>

\* RunDaemon, lines 127-133: setupBootstrapAndComponents
RunDaemonSetup ==
    /\ dpc = "setup"
    /\ \E ok \in BOOLEAN :
          IF ok
          THEN /\ loaded' = TRUE
               /\ dpc' = "system"
               /\ storeOp' = NoOp
               /\ UNCHANGED <<retryRec, exitCode, outcome>>
          ELSE /\ retryRec' = IncrementRetryCount(retryRec, "setup failed", now)
               /\ storeOp' = IncOp("setup failed")
               /\ Exit(1, "setup failed")
               /\ UNCHANGED loaded
    /\ UNCHANGED <<now, gated, entryRec, phasesRun, streak>>
    /\ UNCHANGED <<fetchVars, manyVars, runVars, sideVars>>

\* RunDaemon, lines 136-149: processSystemPhases and its three results
RunDaemonSystemPhases ==
    /\ dpc = "system"
    /\ \E res \in {"ok", "preflight success", "error"},
          ran \in {{"preflight"}, {"setupassistant"}, {"preflight", "setupassistant"}, {}} :
          /\ res = "preflight success" => ran = {"preflight"}
          /\ res = "error" => ran # {}
          /\ phasesRun' = phasesRun \cup ran
          /\ CASE res = "ok" ->
                    /\ dpc' = "userland"
                    /\ storeOp' = NoOp
                    /\ UNCHANGED <<retryRec, exitCode, outcome>>
               [] res = "preflight success" ->
                    /\ Exit(0, "preflight success")
                    /\ storeOp' = NoOp
                    /\ UNCHANGED retryRec
               [] res = "error" ->
                    /\ retryRec' = IncrementRetryCount(retryRec, "system phases failed", now)
                    /\ storeOp' = IncOp("system phases failed")
                    /\ Exit(1, "system phases failed")
    /\ streak' = IF dpc' = "exited" /\ exitCode' = 0 THEN -1 ELSE streak
    /\ UNCHANGED <<now, gated, entryRec, loaded>>
    /\ UNCHANGED <<fetchVars, manyVars, runVars, sideVars>>

\* RunDaemon, lines 152-174: the userland phase, then the successful end
RunDaemonUserland ==
    /\ dpc = "userland"
    /\ \E res \in {"empty", "ok", "error"} :
          IF res = "error"
          THEN /\ phasesRun' = phasesRun \cup {"userland"}
               /\ retryRec' = IncrementRetryCount(retryRec, "userland failed", now)
               /\ storeOp' = IncOp("userland failed")
               /\ Exit(1, "userland phase failed")
               /\ UNCHANGED streak
          ELSE /\ phasesRun' = IF res = "ok" THEN phasesRun \cup {"userland"}
                               ELSE phasesRun
               /\ retryRec' = ClearRetryCount(retryRec)
               /\ storeOp' = ClearOp
               /\ Exit(0, "daemon successful completion")
               /\ streak' = -1
    /\ UNCHANGED <<now, gated, entryRec, loaded>>
    /\ UNCHANGED <<fetchVars, manyVars, runVars, sideVars>>

\* the supervisor (or the provisioning service) starts the driver again
Restart ==
    /\ dpc = "exited"
    /\ dpc' = "entry"
    /\ storeOp' = NoOp
    /\ UNCHANGED <<retryRec, now, exitCode, gated, entryRec, loaded, phasesRun,
                   outcome, streak>>
    /\ UNCHANGED <<fetchVars, manyVars, runVars, sideVars>>

(***************************************************************************)
(* Single fetch (Client.DownloadFileWithRetries, utils.Retry)              *)
(***************************************************************************)
MaxItemRetries    == 2   \* item.Retries ranges over 0..MaxItemRetries
MaxDefaultRetries == 2   \* Client.defaultRetries ranges over 1..MaxDefaultRetries

Contents == {"c1", "c2"}        \* complete bodies a server may send
NoFile   == "none"              \* the destination does not exist
Partial  == "partial"           \* a body cut short by a failed io.Copy

\* fmt.Sprintf("%x", sha256(content)): lower-case hex
Digest(content) ==
    CASE content = "c1" -> "aa"
      [] content = "c2" -> "bb"
      [] OTHER -> "ff"

Hashes == {"", "aa", "AA"}      \* item.Hash: none, the digest of c1, the same in upper case

\* an error value; "nil" is the nil error
VerifyFileHashNoCompare(content, expectedHash) == "nil"
VerifyFileHash(content, expectedHash) ==
    IF expectedHash = "" THEN "nil"
    ELSE IF content = NoFile THEN "open failed"
    ELSE IF Digest(content) # expectedHash THEN "hash mismatch"
    ELSE "nil"

\* DownloadFileWithRetries, lines 92-94
EffectiveRetries(retries, defaultRetries) ==
    IF retries = 0 THEN defaultRetries ELSE retries

\* DownloadFileWithRetries, lines 115-120: the verification result is returned as it is
VerifyRetried(verr, attempt, retries) ==
    IF verr # "nil" /\ attempt < retries
    THEN [pc |-> "sleep", attempt |-> attempt + 1, result |-> "none"]
    ELSE [pc |-> "done", attempt |-> attempt, result |-> verr]
AfterVerify(verr, attempt, retries) ==
    [pc |-> "done", attempt |-> attempt, result |-> verr]

FetchIdle ==
    /\ fpc = "idle"
    /\ freq = [retries |-> 0, hash |-> "", defaultRetries |-> 1]
    /\ fretries = 0
    /\ fattempt = 0
    /\ fslept = 0
    /\ fcalls = 0
    /\ fokDownloads = 0
    /\ fverifies = 0
    /\ fserved = NoFile
    /\ ffile = NoFile
    /\ fresult = "none"

FetchInit ==
    /\ fpc = "call"
    /\ freq \in [retries : 0..MaxItemRetries, hash : Hashes,
                 defaultRetries : 1..MaxDefaultRetries]
    /\ fretries = 0
    /\ fattempt = 0
    /\ fslept = 0
    /\ fcalls = 0
    /\ fokDownloads = 0
    /\ fverifies = 0
    /\ fserved = NoFile
    /\ ffile \in {NoFile, "c1"}
    /\ fresult = "none"

\* DownloadFileWithRetries, lines 88-108: defaults applied, utils.Retry entered
FetchCall ==
    /\ fpc = "call"
    /\ fretries' = EffectiveRetries(freq.retries, freq.defaultRetries)
    /\ fattempt' = 0
    /\ fpc' = "op"
    /\ UNCHANGED <<freq, fslept, fcalls, fokDownloads, fverifies, fserved,
                   ffile, fresult>>
    /\ UNCHANGED <<driverVars, manyVars, runVars, sideVars>>

\* utils.Retry, line 503: after attempt++ the loop goes on while attempt <= maxRetries
RetryLoopsOnOneMore(attempt, maxRetries) == attempt <= maxRetries
RetryLoopsOn(attempt, maxRetries) == attempt + 1 <= maxRetries

\* utils.Retry, lines 505-508: time.Sleep(delay) before a later attempt
RetrySleep ==
    /\ fpc = "sleep"
    /\ fslept' = fslept + 1
    /\ fpc' = "op"
    /\ UNCHANGED <<freq, fretries, fattempt, fcalls, fokDownloads, fverifies,
                   fserved, ffile, fresult>>
    /\ UNCHANGED <<driverVars, manyVars, runVars, sideVars>>

\* one operation() of utils.Retry = Client.downloadOnce; then lines 510-527
DownloadOnce ==
    /\ fpc = "op"
    /\ fcalls' = fcalls + 1
    /\ \E body \in Contents \cup {"bad status", "write failed"} :
          IF body \in Contents
          THEN /\ ffile' = body
               /\ fserved' = body
               /\ fokDownloads' = fokDownloads + 1
               /\ fpc' = "verify"
               /\ UNCHANGED <<fattempt, fresult>>
          ELSE /\ ffile' = IF body = "write failed" THEN Partial ELSE ffile
               /\ UNCHANGED <<fserved, fokDownloads>>
               /\ IF RetryLoopsOn(fattempt, fretries)
                  THEN /\ fattempt' = fattempt + 1
                       /\ fpc' = "sleep"
                       /\ UNCHANGED fresult
                  ELSE /\ fpc' = "done"
                       /\ fresult' = "failed after attempts"
                       /\ UNCHANGED fattempt
    /\ UNCHANGED <<freq, fretries, fslept, fverifies>>
    /\ UNCHANGED <<driverVars, manyVars, runVars, sideVars>>

\* DownloadFileWithRetries, lines 115-120: VerifyFileHash on the saved file
VerifySaved ==
    /\ fpc = "verify"
    /\ fverifies' = fverifies + 1
    /\ LET next == AfterVerify(VerifyFileHash(ffile, freq.hash), fattempt, fretries)
       IN  /\ fpc' = next.pc
           /\ fattempt' = next.attempt
           /\ fresult' = next.result
    /\ UNCHANGED <<freq, fretries, fslept, fcalls, fokDownloads, fserved, ffile>>
    /\ UNCHANGED <<driverVars, manyVars, runVars, sideVars>>

(***************************************************************************)
(* Concurrent downloader (Client.DownloadMultipleWithCleanup) and the      *)
(* CleanupTracker                                                          *)
(***************************************************************************)
MaxItems == 2   \* at most MaxItems items in one call
MaxConc  == 2   \* maxConcurrency ranges over 0..MaxConc

Dests == {"d1", "d2"}           \* destination paths (item.File)

\* items the call may receive; the name of the k-th item is k
ItemChoices ==
    {[url |-> "", file |-> d, hash |-> ""] : d \in Dests} \cup
    {[url |-> "u", file |-> d, hash |-> h] : d \in Dests, h \in {"", "aa"}}

Named(k, c) == [Name |-> k, URL |-> c.url, File |-> c.file, Hash |-> c.hash]

ItemLists ==
    UNION {{[k \in 1..n |-> Named(k, f[k])] : f \in [1..n -> ItemChoices]} :
           n \in 0..MaxItems}

NoItem == [Name |-> 0, URL |-> "", File |-> "", Hash |-> ""]
\* the zero value of DownloadResult
Unset == [Item |-> NoItem, Error |-> "nil"]
DownloadResult(item, err) == [Item |-> item, Error |-> err]

\* CleanupTracker: files is a map from path to shouldDelete
NewCleanupTracker == << >>
TrackFileForgetsOthers(t, path) == [q \in {path} |-> TRUE]
TrackFile(t, path) ==
    [q \in DOMAIN t \cup {path} |-> IF q = path THEN TRUE ELSE t[q]]
MarkSuccessKeepsMark(t, path) ==
    [q \in DOMAIN t \cup {path} |-> IF q = path THEN TRUE ELSE t[q]]
MarkSuccess(t, path) ==
    [q \in DOMAIN t \cup {path} |-> IF q = path THEN FALSE ELSE t[q]]
\* CleanupTracker.Cleanup: os.Remove of every path marked shouldDelete
CleanupRemovesNothing(t, fs) == fs
Cleanup(t, fs) ==
    [q \in DOMAIN fs |-> IF q \in DOMAIN t /\ t[q] THEN NoFile ELSE fs[q]]

\* ProcessItems, line 72 (processUserlandPhase, line 312)
cleanupFailed(c) == c.CleanupOnFailure /\ ~c.KeepFailedFiles

\* DownloadMultipleWithCleanup, lines 30-36: capacity of the semaphore channel
SemaphoreCapAsGiven(maxConcurrency, n) == maxConcurrency
SemaphoreCap(maxConcurrency, n) ==
    IF maxConcurrency <= 0 THEN n ELSE maxConcurrency

InFlight == {i \in DOMAIN wpc : wpc[i] = "running"}

\* semaphore <- struct{}{} proceeds while the channel is not full
CanAcquireOffByOne(held, cap) == held <= cap
CanAcquire(held, cap) == held < cap

\* results[index] = DownloadResult{...}
StoreResultFirstFree(res, index, r) ==
    LET k == CHOOSE j \in DOMAIN res :
                 /\ res[j] = Unset
                 /\ \A l \in DOMAIN res : res[l] = Unset => j <= l
    IN  [res EXCEPT ![k] = r]
StoreResult(res, index, r) == [res EXCEPT ![index] = r]

\* the outcome of DownloadFileWithRetries for the body the server finally delivers
FetchError(body, hash) ==
    IF body \in Contents THEN VerifyFileHash(body, hash)
    ELSE "failed after attempts"

ManyIdle ==
    /\ items = << >>
    /\ cfg = [CleanupOnFailure |-> FALSE, KeepFailedFiles |-> FALSE]
    /\ maxConc = 0
    /\ mpc = "idle"
    /\ wpc = << >>
    /\ werr = << >>
    /\ results = << >>
    /\ tracker = << >>
    /\ files = [d \in Dests |-> NoFile]
    /\ doneOrder = << >>

ManyInit ==
    /\ items \in ItemLists
    /\ cfg \in [CleanupOnFailure : BOOLEAN, KeepFailedFiles : BOOLEAN]
    /\ maxConc \in 0..MaxConc
    /\ mpc = "call"
    /\ wpc = << >>
    /\ werr = << >>
    /\ results = << >>
    /\ tracker = << >>
    /\ files \in [Dests -> {NoFile, "old"}]
    /\ doneOrder = << >>

\* the calls checked for termination: every maxConcurrency from below zero
\* to above the number of items, no file at any destination
ManyInitAnyConcurrency ==
    /\ items \in {its \in ItemLists : \A k \in DOMAIN its : its[k].Hash = ""}
    /\ cfg \in [CleanupOnFailure : BOOLEAN, KeepFailedFiles : {FALSE}]
    /\ maxConc \in -1..(MaxItems + 1)
    /\ mpc = "call"
    /\ wpc = << >>
    /\ werr = << >>
    /\ results = << >>
    /\ tracker = << >>
    /\ files = [d \in Dests |-> NoFile]
    /\ doneOrder = << >>

\* DownloadMultipleWithCleanup, lines 30-70: one goroutine is started per item
DownloadMultipleCall ==
    /\ mpc = "call"
    /\ results' = [k \in 1..Len(items) |-> Unset]
    /\ tracker' = NewCleanupTracker
    /\ wpc' = [k \in 1..Len(items) |-> "spawned"]
    /\ werr' = [k \in 1..Len(items) |-> "nil"]
    /\ mpc' = "waiting"
    /\ UNCHANGED <<items, cfg, maxConc, files, doneOrder>>
    /\ UNCHANGED <<driverVars, fetchVars, runVars, sideVars>>

\* goroutine, lines 47-55: take a semaphore slot, track the destination
WorkerAcquire(i) ==
    /\ mpc = "waiting"
    /\ wpc[i] = "spawned"
    /\ CanAcquire(Cardinality(InFlight), SemaphoreCap(maxConc, Len(items)))
    /\ wpc' = [wpc EXCEPT ![i] = "running"]
    /\ tracker' = IF items[i].URL # "" THEN TrackFile(tracker, items[i].File)
                  ELSE tracker
    /\ UNCHANGED <<items, cfg, maxConc, mpc, werr, results, files, doneOrder>>
    /\ UNCHANGED <<driverVars, fetchVars, runVars, sideVars>>

\* goroutine, lines 59-68 and the deferred release: the download ends
WorkerFinish(i) ==
    /\ mpc = "waiting"
    /\ wpc[i] = "running"
    /\ \E body \in Contents \cup {"bad status", "write failed"} :
          LET item == items[i]
              err  == IF item.URL # "" THEN FetchError(body, item.Hash) ELSE "nil"
          IN  /\ item.URL = "" => body = "bad status"
              /\ files' = IF item.URL = "" \/ body = "bad status" THEN files
                          ELSE IF body = "write failed"
                               THEN [files EXCEPT ![item.File] = Partial]
                               ELSE [files EXCEPT ![item.File] = body]
              /\ tracker' = IF item.URL # "" /\ err = "nil"
                            THEN MarkSuccess(tracker, item.File)
                            ELSE tracker
              /\ werr' = [werr EXCEPT ![i] = err]
              /\ results' = StoreResult(results, i, DownloadResult(item, err))
    /\ wpc' = [wpc EXCEPT ![i] = "done"]
    /\ doneOrder' = Append(doneOrder, i)
    /\ UNCHANGED <<items, cfg, maxConc, mpc>>
    /\ UNCHANGED <<driverVars, fetchVars, runVars, sideVars>>

FailedCount == Cardinality({k \in DOMAIN results : results[k].Error # "nil"})

\* DownloadMultipleWithCleanup, lines 72-90: wg.Wait, failure cleanup, return
DownloadMultipleReturn ==
    /\ mpc = "waiting"
    /\ \A i \in DOMAIN wpc : wpc[i] = "done"
    /\ files' = IF cleanupFailed(cfg) /\ FailedCount > 0
                THEN Cleanup(tracker, files)
                ELSE files
    /\ mpc' = "returned"
    /\ UNCHANGED <<items, cfg, maxConc, wpc, werr, results, tracker, doneOrder>>
    /\ UNCHANGED <<driverVars, fetchVars, runVars, sideVars>>

(***************************************************************************)
(* Phases of a run: the phase engine (Manager.ProcessItems), the           *)
(* finalisation phase of the driver (processUserlandPhase) and the         *)
(* background process table (ProcessTracker)                               *)
(***************************************************************************)
MaxPhaseItems    == 2   \* items of setupassistant in a call of the phase engine
MaxManifestItems == 2   \* items of setupassistant and userland together in a run
MaxExitCode      == 2   \* the preflight script exits with 0..MaxExitCode

FailPolicies == {"", "failure_is_not_an_option", "failable", "failable_execution"}
HostArchs    == {"arm64", "amd64"}
ScriptTypes  == {"rootscript", "userscript"}
FileTypes    == {"rootfile", "userfile"}

SpawnFailed == -1       \* the script could not be started
NotRun      == -2       \* no preflight script was executed

Kind(type, skipIf, failPolicy, doNotWait, pkgRequired) ==
    [Type |-> type, SkipIf |-> skipIf, FailPolicy |-> failPolicy,
     DoNotWait |-> doNotWait, PkgRequired |-> pkgRequired]

\* config.Item; the name records the phase and the manifest index
Item(ph, i, k) ==
    [Name |-> <<ph, i>>, Type |-> k.Type, SkipIf |-> k.SkipIf,
     FailPolicy |-> k.FailPolicy, DoNotWait |-> k.DoNotWait,
     PkgRequired |-> k.PkgRequired]

PhaseItems(ph, ks) == [i \in 1..Len(ks) |-> Item(ph, i, ks[i])]

\* config.Bootstrap
Bootstrap(pre, setup, user) ==
    [preflight      |-> PhaseItems("preflight", pre),
     setupassistant |-> PhaseItems("setupassistant", setup),
     userland       |-> PhaseItems("userland", user)]

SeqsUpTo(S, n) == UNION {[1..m -> S] : m \in 0..n}

ItemNames(its) == {its[i].Name : i \in 1..Len(its)}

AllItemNames(m) ==
    ItemNames(m.preflight) \cup ItemNames(m.setupassistant) \cup ItemNames(m.userland)

ItemOf(name) == manifest[name[1]][name[2]]

\* strings.ToLower on the skip_if values
ToLower(str) ==
    CASE str = "ARM64" -> "arm64"
      [] str = "Intel" -> "intel"
      [] OTHER -> str

\* native hardware; the Rosetta probe of IsAppleSilicon is not modelled
IsAppleSilicon(arch) == arch = "arm64"
IsIntel(arch) == arch = "amd64" /\ ~IsAppleSilicon(arch)

ShouldSkipItem(skipIf, arch) ==
    IF skipIf = "" THEN FALSE
    ELSE LET lower == ToLower(skipIf)
         IN  CASE lower \in {"arm64", "apple_silicon"} -> IsAppleSilicon(arch)
               [] lower \in {"x86_64", "intel"} -> IsIntel(arch)
               [] OTHER -> FALSE

RECURSIVE KeepUnskipped(_, _)
KeepUnskipped(its, arch) ==
    IF its = <<>> THEN <<>>
    ELSE IF ShouldSkipItem(Head(its).SkipIf, arch)
         THEN KeepUnskipped(Tail(its), arch)
         ELSE <<Head(its)>> \o KeepUnskipped(Tail(its), arch)

\* Manager.ProcessItems, lines 46-56
FilterItemsReversed(its, arch) ==
    LET kept == KeepUnskipped(its, arch)
    IN  [i \in 1..Len(kept) |-> kept[Len(kept) + 1 - i]]
FilterItems(its, arch) == KeepUnskipped(its, arch)

\* Manager.validatePhaseRestrictions: TRUE when there is no error
validatePhaseRestrictions(its, ph) ==
    \A i \in 1..Len(its) :
        its[i].Type \in {"userscript", "userfile"} =>
            ph \notin {"setupassistant", "preflight"}

\* Manager.ProcessItems, lines 99-102; processUserlandPhase, lines 331-333
AnyDownloadFailedNever(failed) == FALSE
AnyDownloadFailed(failed) == failed # {}

GetEffectiveFailPolicy(item) ==
    IF item.FailPolicy = "" THEN "failable_execution" ELSE item.FailPolicy

\* Manager.handleItemError: TRUE when the phase stops
handleItemErrorEmptyIsStrict(item, operation) ==
    CASE item.FailPolicy = "failure_is_not_an_option" -> TRUE
      [] item.FailPolicy = "failable" -> FALSE
      [] item.FailPolicy = "failable_execution" -> operation # "script execution"
      [] OTHER -> TRUE
handleItemError(item, operation) ==
    LET policy == GetEffectiveFailPolicy(item)
    IN  CASE policy = "failure_is_not_an_option" -> TRUE
          [] policy = "failable" -> FALSE
          [] policy = "failable_execution" -> operation # "script execution"
          [] OTHER -> TRUE

\* what the installer reports for a dispatched item: "nil", the skip of an
\* installed package, or the operation that failed
InstallOutcomes(item) ==
    CASE item.Type = "package" ->
             (IF item.PkgRequired
              THEN {"package receipt check", "already installed"} ELSE {})
             \cup {"package installation", "nil"}
      [] item.Type \in ScriptTypes -> {"script execution", "nil"}
      [] item.Type \in FileTypes -> {"file placement", "nil"}
      [] OTHER -> {"nil"}

Failed(op) == op \notin {"nil", "already installed"}

PreflightRuns == {SpawnFailed} \cup (0..MaxExitCode)

\* ScriptExecutor.handlePreflightResult
handlePreflightResultOnlyOne(run) ==
    IF run # 0
    THEN IF run = 1 THEN "nil" ELSE "execution failed"
    ELSE "preflight success"
handlePreflightResult(run) ==
    IF run # 0
    THEN IF run > 0 THEN "nil" ELSE "execution failed"
    ELSE "preflight success"

\* Manager.handlePreflightScript: the fail policy of the item is not read
handlePreflightScript(res) ==
    CASE res = "preflight success" -> "preflight success"
      [] res # "nil" -> "preflight script failed"
      [] OTHER -> "nil"

\* Manager.ProcessItems, line 157; processUserlandPhase, line 394
ShouldDrainNever(count, track) == FALSE
ShouldDrain(count, track) == count > 0 /\ track

\* processSystemPhases, lines 210-212 and 221-223: only nil lets the next
\* phase start
RunGoesOnAfterPreflight(res) == res \in {"nil", "preflight success"}
RunGoesOn(res) == res = "nil"

NextPhase(ph) ==
    CASE ph = "preflight" -> "setupassistant"
      [] ph = "setupassistant" -> "userland"
      [] OTHER -> "none"

NoPhaseRet == [ph \in {"preflight", "setupassistant", "userland"} |-> "none"]
NoDrain    == [how |-> "none", count |-> 0, survivors |-> {}]

DispatchEvent(kind, name, op, stop) ==
    [ev |-> kind, name |-> name, op |-> op, stop |-> stop]

RunStart(m, arch, track, atrack, pc) ==
    /\ manifest = m
    /\ hostArch = arch
    /\ trackBackgroundProcesses = track
    /\ agentTrack = atrack
    /\ runners = <<>>
    /\ rpc = pc
    /\ phaseName = "preflight"
    /\ filteredItems = <<>>
    /\ idx = 0
    /\ backgroundProcessCount = 0
    /\ fetched = {}
    /\ dlFailed = {}
    /\ dispatchLog = <<>>
    /\ phaseRet = NoPhaseRet
    /\ preflightRun = NotRun
    /\ processes = <<>>
    /\ pstate = [n \in AllItemNames(m) |-> "none"]
    /\ snapshot = <<>>
    /\ signalled = {}
    /\ completed = 0
    /\ done = 0
    /\ errors = <<>>
    /\ drainRet = NoDrain
    /\ runResult = "none"
    /\ runExit = -1
    /\ sysCleanup = FALSE
    /\ sockPath = ""

RunIdle == RunStart(Bootstrap(<<>>, <<>>, <<>>), "arm64", FALSE, FALSE, "idle")

\* manifests of a whole run
RunPreflights == {<<>>, <<Kind("rootscript", "", "", FALSE, FALSE)>>}
RunSetupKinds ==
    {Kind("package", sk, "", FALSE, FALSE) : sk \in {"", "ARM64"}}
    \cup {Kind("rootscript", "", "", dnw, FALSE) : dnw \in BOOLEAN}
RunUserlandKinds ==
    {Kind("package", sk, "", FALSE, FALSE) : sk \in {"", "ARM64"}}
    \cup {Kind("userscript", "", "failable_execution", FALSE, FALSE),
          Kind("userscript", "", "", TRUE, FALSE),
          Kind("rootscript", "", "", TRUE, FALSE),
          Kind("userfile", "", "", FALSE, FALSE)}
RunManifests ==
    {Bootstrap(pre, su[1], su[2]) :
        pre \in RunPreflights,
        su \in {x \in SeqsUpTo(RunSetupKinds, MaxManifestItems)
                      \X SeqsUpTo(RunUserlandKinds, MaxManifestItems) :
                   Len(x[1]) + Len(x[2]) <= MaxManifestItems}}

RunInit ==
    \E m \in RunManifests, arch \in HostArchs, track \in BOOLEAN,
       atrack \in BOOLEAN :
        RunStart(m, arch, track, atrack, "call")

\* manifests for the phase engine alone: every fail policy with every
\* operation, no finalisation items
EnginePreflights ==
    {<<>>} \cup {<<Kind("rootscript", "", fp, FALSE, FALSE)>> : fp \in FailPolicies}
EngineKinds ==
    {Kind("package", "", fp, FALSE, TRUE) : fp \in FailPolicies}
    \cup {Kind("rootscript", "", fp, FALSE, FALSE) : fp \in FailPolicies}
    \cup {Kind("rootfile", "", fp, FALSE, FALSE) : fp \in FailPolicies}
EngineManifests ==
    {Bootstrap(pre, setup, <<>>) :
        pre \in EnginePreflights,
        setup \in SeqsUpTo(EngineKinds, MaxPhaseItems)}

EngineInit ==
    \E m \in EngineManifests : RunStart(m, "arm64", FALSE, FALSE, "call")

\* a phase returned res to processSystemPhases / RunDaemon
PhaseReturn(ph, res) ==
    /\ phaseRet' = [phaseRet EXCEPT ![ph] = res]
    /\ IF RunGoesOn(res) /\ ph # "userland"
       THEN /\ phaseName' = NextPhase(ph)
            /\ rpc' = "call"
            /\ UNCHANGED runResult
       ELSE /\ runResult' = res
            /\ rpc' = "exiting"
            /\ UNCHANGED phaseName

\* processSystemPhases, lines 208-227, with Manager.ProcessItems, lines 34-63:
\* empty phase, phase restrictions, skip_if filter
ProcessItemsCall ==
    /\ rpc = "call"
    /\ phaseName \in {"preflight", "setupassistant"}
    /\ LET its  == manifest[phaseName]
           kept == FilterItems(its, hostArch)
       IN  IF Len(its) = 0
           THEN PhaseReturn(phaseName, "nil") /\ UNCHANGED filteredItems
           ELSE IF ~validatePhaseRestrictions(its, phaseName)
           THEN PhaseReturn(phaseName, "invalid item") /\ UNCHANGED filteredItems
           ELSE IF Len(kept) = 0
           THEN PhaseReturn(phaseName, "nil") /\ UNCHANGED filteredItems
           ELSE /\ filteredItems' = kept
                /\ rpc' = "download"
                /\ UNCHANGED <<phaseName, phaseRet, runResult>>
    /\ UNCHANGED <<inputVars, idx, backgroundProcessCount, histVars, procVars,
                   drainVars, exitVars>>
    /\ UNCHANGED <<driverVars, fetchVars, manyVars, sideVars, sockPath>>

\* Manager.ProcessItems, lines 83-107: DownloadMultipleWithCleanup on the
\* filtered items, any failed download ends the phase
ProcessItemsDownload ==
    /\ rpc = "download"
    /\ phaseName # "userland"
    /\ \E failed \in SUBSET ItemNames(filteredItems) :
          /\ fetched' = fetched \cup ItemNames(filteredItems)
          /\ dlFailed' = dlFailed \cup failed
          /\ IF AnyDownloadFailed(failed)
             THEN /\ PhaseReturn(phaseName, "download failed")
                  /\ UNCHANGED <<idx, backgroundProcessCount>>
             ELSE /\ idx' = 1
                  /\ backgroundProcessCount' = 0
                  /\ rpc' = "dispatch"
                  /\ UNCHANGED <<phaseName, phaseRet, runResult>>
    /\ UNCHANGED <<inputVars, filteredItems, dispatchLog, preflightRun,
                   procVars, drainVars, exitVars>>
    /\ UNCHANGED <<driverVars, fetchVars, manyVars, sideVars, sockPath>>

\* Manager.ProcessItems, lines 109-121; processUserlandPhase, lines 349-351:
\* the loop reaches the next item and calls its handler
DispatchBegin ==
    /\ rpc = "dispatch"
    /\ idx <= Len(filteredItems)
    /\ dispatchLog' = Append(dispatchLog,
                             DispatchEvent("begin", filteredItems[idx].Name, "", FALSE))
    /\ rpc' = "handling"
    /\ UNCHANGED <<inputVars, loopVars, fetched, dlFailed, preflightRun,
                   procVars, drainVars, phaseName, phaseRet, runResult, exitVars>>
    /\ UNCHANGED <<driverVars, fetchVars, manyVars, sideVars, sockPath>>

\* a script started by StartBackgroundProcess is appended to the table
StartTracked(name) ==
    /\ processes' = Append(processes, name)
    /\ pstate' = [pstate EXCEPT ![name] = "running"]
    /\ UNCHANGED runners

\* Manager.ProcessItems, lines 121-153, with handlePackageInstallation,
\* handleRootScript, handleUserScript, handleFilePlacement and
\* handlePreflightScript: the handler of the item returns
ManagerDispatchReturn ==
    /\ rpc = "handling"
    /\ phaseName # "userland"
    /\ LET item == filteredItems[idx]
       IN  IF item.Type = "rootscript" /\ phaseName = "preflight"
           THEN \E run \in PreflightRuns :
                   LET res == handlePreflightScript(handlePreflightResult(run))
                   IN  /\ preflightRun' = run
                       /\ dispatchLog' = Append(dispatchLog,
                              DispatchEvent("return", item.Name, res, res # "nil"))
                       /\ PhaseReturn(phaseName, res)
                       /\ UNCHANGED <<idx, backgroundProcessCount, procVars>>
           ELSE \E op \in InstallOutcomes(item) :
                   LET stop    == Failed(op) /\ handleItemError(item, op)
                       tracked == /\ ~Failed(op)
                                  /\ item.Type \in ScriptTypes
                                  /\ item.DoNotWait
                                  /\ trackBackgroundProcesses
                   IN  /\ dispatchLog' = Append(dispatchLog,
                              DispatchEvent("return", item.Name, op, stop))
                       /\ IF tracked
                          THEN /\ StartTracked(item.Name)
                               /\ backgroundProcessCount' = backgroundProcessCount + 1
                          ELSE UNCHANGED <<procVars, backgroundProcessCount>>
                       /\ IF stop
                          THEN PhaseReturn(phaseName, "item failed") /\ UNCHANGED idx
                          ELSE /\ idx' = idx + 1
                               /\ rpc' = "dispatch"
                               /\ UNCHANGED <<phaseName, phaseRet, runResult>>
                       /\ UNCHANGED preflightRun
    /\ UNCHANGED <<inputVars, filteredItems, fetched, dlFailed, drainVars, exitVars>>
    /\ UNCHANGED <<driverVars, fetchVars, manyVars, sideVars, sockPath>>

\* Manager.ProcessItems, lines 156-160; processUserlandPhase, lines 393-396;
\* ProcessTracker.WaitForCompletion, lines 397-412: the loop is over, the
\* drain starts if processes were counted
DispatchLoopEnd ==
    /\ rpc = "dispatch"
    /\ idx > Len(filteredItems)
    /\ IF ShouldDrain(backgroundProcessCount, trackBackgroundProcesses)
          /\ Len(processes) > 0
       THEN /\ snapshot' = processes
            /\ signalled' = {}
            /\ completed' = 0
            /\ done' = 0
            /\ errors' = <<>>
            /\ rpc' = "draining"
            /\ UNCHANGED drainRet
       ELSE /\ rpc' = "complete"
            /\ UNCHANGED drainVars
    /\ UNCHANGED <<inputVars, loopVars, histVars, procVars, phaseName, phaseRet,
                   runResult, exitVars>>
    /\ UNCHANGED <<driverVars, fetchVars, manyVars, sideVars, sockPath>>

\* a tracked background process exits by itself
ProcessExit(n) ==
    /\ rpc \in {"dispatch", "handling", "draining"}
    /\ pstate[n] = "running"
    /\ \E how \in {"exited ok", "exited failed"} :
          pstate' = [pstate EXCEPT ![n] = how]
    /\ UNCHANGED <<inputVars, loopVars, histVars, processes, runners,
                   drainVars, flowVars, exitVars>>
    /\ UNCHANGED <<driverVars, fetchVars, manyVars, sideVars, sockPath>>

Range(sq) == {sq[i] : i \in 1..Len(sq)}

\* WaitForCompletion, lines 418-434: the goroutine waiting for one process
\* sees it gone, records its error and signals
WaiterDone(n) ==
    /\ rpc = "draining"
    /\ n \in Range(snapshot)
    /\ n \notin signalled
    /\ pstate[n] # "running"
    /\ signalled' = signalled \cup {n}
    /\ errors' = IF pstate[n] # "exited ok"
                 THEN Append(errors, [kind |-> "process failed", count |-> 0])
                 ELSE errors
    /\ done' = done + 1
    /\ UNCHANGED <<inputVars, loopVars, histVars, procVars, snapshot, completed,
                   drainRet, flowVars, exitVars>>
    /\ UNCHANGED <<driverVars, fetchVars, manyVars, sideVars, sockPath>>

\* WaitForCompletion, lines 441-445: the select receives one signal
DrainReceive ==
    /\ rpc = "draining"
    /\ completed < Len(snapshot)
    /\ done > 0
    /\ completed' = completed + 1
    /\ done' = done - 1
    /\ UNCHANGED <<inputVars, loopVars, histVars, procVars, snapshot, signalled,
                   errors, drainRet, flowVars, exitVars>>
    /\ UNCHANGED <<driverVars, fetchVars, manyVars, sideVars, sockPath>>

\* WaitForCompletion, lines 447-468: the select takes the timeout.  Kill
\* reaches the processes that are still running; for a process that is
\* already gone it has no effect, whatever the unsynchronised read of
\* ProcessState returns.
DrainTimeout ==
    /\ rpc = "draining"
    /\ completed < Len(snapshot)
    /\ pstate' = [n \in DOMAIN pstate |->
                    IF n \in Range(snapshot) /\ pstate[n] = "running"
                    THEN "killed" ELSE pstate[n]]
    /\ errors' = Append(errors, [kind |-> "timeout",
                                 count |-> Len(snapshot) - completed])
    /\ processes' = <<>>
    /\ drainRet' = [how |-> "timeout",
                    count |-> Len(snapshot) - completed,
                    survivors |-> {n \in Range(snapshot) : pstate[n] = "running"}]
    /\ PhaseReturn(phaseName, "background failed")
    /\ UNCHANGED <<inputVars, loopVars, histVars, runners, snapshot, signalled,
                   completed, done, exitVars>>
    /\ UNCHANGED <<driverVars, fetchVars, manyVars, sideVars, sockPath>>

\* WaitForCompletion, lines 472-480, and the caller's check of the errors
DrainComplete ==
    /\ rpc = "draining"
    /\ completed = Len(snapshot)
    /\ processes' = <<>>
    /\ drainRet' = [how |-> "completed", count |-> 0, survivors |-> {}]
    /\ IF Len(errors) > 0
       THEN PhaseReturn(phaseName, "background failed")
       ELSE /\ rpc' = "complete"
            /\ UNCHANGED <<phaseName, phaseRet, runResult>>
    /\ UNCHANGED <<inputVars, loopVars, histVars, pstate, runners, snapshot,
                   signalled, completed, done, errors, exitVars>>
    /\ UNCHANGED <<driverVars, fetchVars, manyVars, sideVars, sockPath>>

\* Manager.ProcessItems, lines 172-181 (cleanup on success, return nil);
\* processUserlandPhase, lines 407-414 (best-effort Shutdown, return nil)
PhaseComplete ==
    /\ rpc = "complete"
    /\ PhaseReturn(phaseName, "nil")
    /\ UNCHANGED <<inputVars, loopVars, histVars, procVars, drainVars, exitVars>>
    /\ UNCHANGED <<driverVars, fetchVars, manyVars, sideVars, sockPath>>

\* RunDaemon, lines 152-162: the userland phase is entered if it has items
ProcessUserlandPhaseCall ==
    /\ rpc = "call"
    /\ phaseName = "userland"
    /\ IF Len(manifest.userland) > 0
       THEN /\ filteredItems' = manifest.userland
            /\ rpc' = "download"
            /\ UNCHANGED runResult
       ELSE /\ runResult' = "nil"
            /\ rpc' = "exiting"
            /\ UNCHANGED filteredItems
    /\ UNCHANGED <<inputVars, idx, backgroundProcessCount, histVars, procVars,
                   drainVars, phaseName, phaseRet, exitVars>>
    /\ UNCHANGED <<driverVars, fetchVars, manyVars, sideVars, sockPath>>

\* processUserlandPhase, lines 311-335: every userland item is downloaded
ProcessUserlandPhaseDownload ==
    /\ rpc = "download"
    /\ phaseName = "userland"
    /\ \E failed \in SUBSET ItemNames(filteredItems) :
          /\ fetched' = fetched \cup ItemNames(filteredItems)
          /\ dlFailed' = dlFailed \cup failed
          /\ IF AnyDownloadFailed(failed)
             THEN PhaseReturn(phaseName, "download failed")
             ELSE /\ rpc' = "agentwait"
                  /\ UNCHANGED <<phaseName, phaseRet, runResult>>
    /\ UNCHANGED <<inputVars, loopVars, dispatchLog, preflightRun, procVars,
                   drainVars, exitVars>>
    /\ UNCHANGED <<driverVars, fetchVars, manyVars, sideVars, sockPath>>

\* waitForAgentSocket as processUserlandPhase sees it: the socket path, or
\* an error (the wait itself is modelled in SpecIPC)
AgentWaitReturns ==
    {[path |-> "agent.sock", err |-> "nil"],
     [path |-> "", err |-> "timeout waiting for agent socket"]}

\* processUserlandPhase, lines 340-342
AgentWaitFailedNever(err) == FALSE
AgentWaitFailed(err) == err # "nil"

\* processUserlandPhase, lines 337-347: waitForAgentSocket
WaitForAgentSocket ==
    /\ rpc = "agentwait"
    /\ \E ret \in AgentWaitReturns :
          /\ sockPath' = ret.path
          /\ IF AgentWaitFailed(ret.err)
             THEN /\ PhaseReturn(phaseName, "agent wait failed")
                  /\ UNCHANGED <<idx, backgroundProcessCount>>
             ELSE /\ idx' = 1
                  /\ backgroundProcessCount' = 0
                  /\ rpc' = "dispatch"
                  /\ UNCHANGED <<phaseName, phaseRet, runResult>>
    /\ UNCHANGED <<inputVars, filteredItems, histVars, procVars, drainVars,
                   exitVars>>
    /\ UNCHANGED <<driverVars, fetchVars, manyVars, sideVars>>

\* processUserlandPhase, lines 352-381: of the scripts counted as background
\* processes only the rootscript is started by the driver's installer
DriverTracksAnyScript(item, counted, track) == counted /\ track
DriverTracks(item, counted, track) ==
    counted /\ item.Type = "rootscript" /\ track

\* ScriptExecutor.handleBackgroundExecution on a fresh executor: the table
\* of the executor after the script was started
HelperRunner(name, doNotWait, track) ==
    IF doNotWait /\ track THEN <<name>> ELSE <<>>

\* RunAgent, case "RunUserScript", answering OK: a new installer with its
\* own process table; a do-not-wait script is left running, any other
\* script has ended when the response is sent
RunUserScript(item) ==
    /\ runners' = Append(runners,
                         HelperRunner(item.Name, item.DoNotWait, agentTrack))
    /\ pstate' = IF item.DoNotWait
                 THEN [pstate EXCEPT ![item.Name] = "running"]
                 ELSE pstate
    /\ UNCHANGED processes

\* processUserlandPhase, lines 351-390, with processUserScript,
\* processUserFile and processPackage: any error of the item is returned
UserlandDispatchReturn ==
    /\ rpc = "handling"
    /\ phaseName = "userland"
    /\ LET item == filteredItems[idx]
       IN  \E op \in InstallOutcomes(item) :
              LET stop    == Failed(op)
                  counted == ~Failed(op) /\ item.Type \in ScriptTypes /\ item.DoNotWait
                  tracked == DriverTracks(item, counted, trackBackgroundProcesses)
              IN  /\ dispatchLog' = Append(dispatchLog,
                         DispatchEvent("return", item.Name, op, stop))
                  /\ backgroundProcessCount' =
                         IF counted THEN backgroundProcessCount + 1
                         ELSE backgroundProcessCount
                  /\ IF tracked THEN StartTracked(item.Name)
                     ELSE IF item.Type = "userscript" /\ ~Failed(op)
                     THEN RunUserScript(item)
                     ELSE UNCHANGED procVars
                  /\ IF stop
                     THEN PhaseReturn(phaseName, "item failed") /\ UNCHANGED idx
                     ELSE /\ idx' = idx + 1
                          /\ rpc' = "dispatch"
                          /\ UNCHANGED <<phaseName, phaseRet, runResult>>
    /\ UNCHANGED <<inputVars, filteredItems, fetched, dlFailed, preflightRun,
                   drainVars, exitVars>>
    /\ UNCHANGED <<driverVars, fetchVars, manyVars, sideVars, sockPath>>

\* RunDaemon, lines 138-148, 154-157, 165-174, with utils.Exit: system
\* cleanup, then os.Exit; 0 for success and for preflight success
RunExit ==
    /\ rpc = "exiting"
    /\ sysCleanup' = TRUE
    /\ runExit' = IF runResult \in {"nil", "preflight success"} THEN 0 ELSE 1
    /\ rpc' = "exited"
    /\ UNCHANGED <<inputVars, loopVars, histVars, procVars, drainVars,
                   phaseName, phaseRet, runResult>>
    /\ UNCHANGED <<driverVars, fetchVars, manyVars, sideVars, sockPath>>

(***************************************************************************)
(* Loading the manifest (pkg/config/bootstrap.go, getBootstrap)            *)
(***************************************************************************)
MaxLoadItems == 2   \* items of a manifest document, all phases together

AllowedTypes == {"package", "rootscript", "userscript", "rootfile", "userfile"}
LoadTypes    == AllowedTypes \cup {"foo"}
LoadPolicies == FailPolicies \cup {"sometimes"}
Phases       == <<"preflight", "setupassistant", "userland">>

\* what validation looks at in an item
LoadItem(type, failPolicy) == [Type |-> type, FailPolicy |-> failPolicy]
\* every type without a fail policy, and every fail policy on a root-context
\* and on a user-context type
LoadItems ==
    {LoadItem(t, "") : t \in LoadTypes} \cup
    {LoadItem(t, p) : t \in {"package", "userscript"}, p \in LoadPolicies}

Malformed   == [kind |-> "malformed"]
NoBootstrap == [kind |-> "none"]
Document(pre, setup, user) ==
    [kind |-> "bootstrap", preflight |-> pre, setupassistant |-> setup,
     userland |-> user]

\* how many items each phase of a document has, at most MaxLoadItems in all
LoadSizes ==
    {n \in (0..MaxLoadItems) \X (0..MaxLoadItems) \X (0..MaxLoadItems) :
        n[1] + n[2] + n[3] <= MaxLoadItems}

validateFailPolicy(policy) ==
    IF policy \in {"failure_is_not_an_option", "failable", "failable_execution"}
    THEN "nil"
    ELSE IF policy = "" THEN "nil"
    ELSE "invalid fail_policy"

validateItemForPhaseAnyType(item, phase) ==
    IF item.FailPolicy # "" /\ validateFailPolicy(item.FailPolicy) # "nil"
    THEN "invalid fail_policy for item"
    ELSE "nil"
validateItemForPhase(item, phase) ==
    IF item.Type \notin AllowedTypes THEN "invalid item type"
    ELSE IF /\ phase \in {"preflight", "setupassistant"}
            /\ item.Type \in {"userscript", "userfile"}
    THEN "phase only supports root operations"
    ELSE IF phase \notin {"preflight", "setupassistant", "userland"}
    THEN "unknown phase"
    ELSE IF item.FailPolicy # "" /\ validateFailPolicy(item.FailPolicy) # "nil"
    THEN "invalid fail_policy for item"
    ELSE "nil"

\* a range loop that returns the first error it meets
FirstError(errs) ==
    IF \A i \in 1..Len(errs) : errs[i] = "nil" THEN "nil"
    ELSE errs[CHOOSE i \in 1..Len(errs) :
                 /\ errs[i] # "nil"
                 /\ \A j \in 1..(i - 1) : errs[j] = "nil"]

ItemErrors(its, phase) ==
    [i \in 1..Len(its) |-> validateItemForPhase(its[i], phase)]

\* body of the loop over the preflight items, lines 80-86
validatePreflightItem(item) ==
    IF validateItemForPhase(item, "preflight") # "nil"
    THEN validateItemForPhase(item, "preflight")
    ELSE IF item.Type # "rootscript"
    THEN "preflight phase only supports rootscript type"
    ELSE "nil"

ValidateBootstrapNoPreflightRule(bootstrap) ==
    LET pre   == FirstError(ItemErrors(bootstrap.preflight, "preflight"))
        setup == FirstError(ItemErrors(bootstrap.setupassistant, "setupassistant"))
        user  == FirstError(ItemErrors(bootstrap.userland, "userland"))
    IN  IF pre # "nil" THEN pre
        ELSE IF setup # "nil" THEN setup
        ELSE user
ValidateBootstrap(bootstrap) ==
    LET pre   == FirstError([i \in 1..Len(bootstrap.preflight) |->
                               validatePreflightItem(bootstrap.preflight[i])])
        setup == FirstError(ItemErrors(bootstrap.setupassistant, "setupassistant"))
        user  == FirstError(ItemErrors(bootstrap.userland, "userland"))
    IN  IF Len(bootstrap.preflight) > 1
        THEN "preflight phase only supports a single rootscript"
        ELSE IF pre # "nil" THEN pre
        ELSE IF setup # "nil" THEN setup
        ELSE user

\* what a load returns: the bootstrap or an error, and what the validator
\* said if it was called
Loaded(b, err, valid) == [bootstrap |-> b, err |-> err, valid |-> valid]

\* json.Unmarshal into a Bootstrap: the three sequences of the document
Unmarshal(doc) ==
    [kind |-> "bootstrap", preflight |-> doc.preflight,
     setupassistant |-> doc.setupassistant, userland |-> doc.userland]

LoadBootstrapWithOptions(doc, validate) ==
    IF doc.kind = "malformed"
    THEN Loaded(NoBootstrap, "unmarshal error", "not called")
    ELSE IF validate
    THEN IF ValidateBootstrap(Unmarshal(doc)) # "nil"
         THEN Loaded(NoBootstrap, ValidateBootstrap(Unmarshal(doc)),
                     ValidateBootstrap(Unmarshal(doc)))
         ELSE Loaded(Unmarshal(doc), "nil", "nil")
    ELSE Loaded(Unmarshal(doc), "nil", "not called")

LoadBootstrap(doc) == LoadBootstrapWithOptions(doc, TRUE)

\* Config.LoadBootstrapFromProfile: the bootstrap section of the managed
\* preferences is converted to a Bootstrap; ValidateBootstrap is not called
LoadBootstrapFromProfile(doc) ==
    IF doc.kind = "malformed"
    THEN Loaded(NoBootstrap, "bootstrap section is not a dictionary",
                "not called")
    ELSE Loaded(Unmarshal(doc), "nil", "not called")

getBootstrap(c, doc, downloaded) ==
    IF c.JSONURL
    THEN IF ~downloaded
         THEN Loaded(NoBootstrap, "failed to download bootstrap", "not called")
         ELSE IF c.SkipValidation
         THEN LoadBootstrapWithOptions(doc, FALSE)
         ELSE LoadBootstrap(doc)
    ELSE LoadBootstrapFromProfile(doc)

LoadConfigs == [JSONURL : BOOLEAN, SkipValidation : BOOLEAN]

LoadStart(c, doc, dl, pc) ==
    /\ lcfg = c
    /\ ldoc = doc
    /\ ldownload = dl
    /\ lpc = pc
    /\ lvalid = "not called"
    /\ lerr = "none"
    /\ lbootstrap = NoBootstrap
    /\ lphases = FALSE
    /\ lexit = -1

LoadIdle ==
    LoadStart([JSONURL |-> FALSE, SkipValidation |-> FALSE], Malformed, FALSE,
              "idle")

LoadInit ==
    \E c \in LoadConfigs, dl \in BOOLEAN :
       /\ c.JSONURL \/ dl
       /\ \/ LoadStart(c, Malformed, dl, "setup")
          \/ \E n \in LoadSizes :
                \E pre \in [1..n[1] -> LoadItems],
                   setup \in [1..n[2] -> LoadItems],
                   user \in [1..n[3] -> LoadItems] :
                   LoadStart(c, Document(pre, setup, user), dl, "setup")

\* RunDaemon, line 127, with setupBootstrapAndComponents lines 180-183
SetupBootstrap ==
    /\ lpc = "setup"
    /\ LET ld == getBootstrap(lcfg, ldoc, ldownload)
       IN  /\ lvalid' = ld.valid
           /\ lerr' = ld.err
           /\ lbootstrap' = ld.bootstrap
    /\ lpc' = "loaded"
    /\ UNCHANGED <<lcfg, ldoc, ldownload, lphases, lexit>>
    /\ UNCHANGED <<driverVars, fetchVars, manyVars, runVars, ipcVars, redirVars,
                 moreVars>>

\* RunDaemon, lines 128-136: a failed setup ends the run with code 1,
\* otherwise the phases start
SetupReturn ==
    /\ lpc = "loaded"
    /\ IF lerr # "nil"
       THEN /\ lexit' = 1
            /\ lpc' = "exited"
            /\ UNCHANGED lphases
       ELSE /\ lphases' = TRUE
            /\ lpc' = "phases"
            /\ UNCHANGED lexit
    /\ UNCHANGED <<lcfg, ldoc, ldownload, lvalid, lerr, lbootstrap>>
    /\ UNCHANGED <<driverVars, fetchVars, manyVars, runVars, ipcVars, redirVars,
                 moreVars>>

(***************************************************************************)
(* The helper and its socket (RunAgent, startAgentIPCServer) and the       *)
(* driver's client (waitForAgentSocket, callAgent)                         *)
(***************************************************************************)
MaxConns       == 2   \* connections made by the clients of SpecAgent
MaxRequests    == 2   \* requests written by the clients of SpecAgent
MaxWaitTimeout == 2   \* cfg.WaitForAgentTimeout is 0..MaxWaitTimeout seconds
MaxCalls       == 2   \* userland items of the driver in SpecIPC

DialTimeout   == 2    \* seconds a failing net.DialTimeout may take
ProbeInterval == 1    \* seconds slept between two probes

Commands == {"Ping", "Shutdown", "RunUserScript", "PlaceUserFile", "Reboot"}

RPCRequest(id, command, doNotWait) ==
    [ID |-> id, Command |-> command, DoNotWait |-> doNotWait]
RPCResponse(id, ok, started, error) ==
    [ID |-> id, OK |-> ok, Started |-> started, Error |-> error]

\* request ids are numbered here; 0 stands for the empty id
NoRequest  == RPCRequest(0, "none", FALSE)
NoResponse == RPCResponse(0, FALSE, FALSE, "none")

\* a connection to the socket: the client's end and the goroutine that
\* serves it
Conn(kind, server) ==
    [kind    |-> kind,        \* "probe", "call" or "raw" client
     server  |-> server,      \* the listener that got the connection
     inbox   |-> <<>>,        \* requests written and not yet read
     sent    |-> 0,           \* requests written by the client
     creq    |-> NoRequest,   \* the request of callAgent
     ceof    |-> FALSE,       \* the client closed its end
     got     |-> "none",      \* what callAgent returned
     srv     |-> "queued",    \* position of the serving goroutine
     req     |-> NoRequest,   \* the request decoded by the goroutine
     decoded |-> 0,           \* requests decoded
     calls   |-> 0,           \* invocations of the handler
     resp    |-> NoResponse,  \* the handler's response
     outbox  |-> <<>>]        \* responses written to the connection

ConnIds == DOMAIN conns

RECURSIVE SentTotal(_)
SentTotal(cs) ==
    IF cs = <<>> THEN 0 ELSE Head(cs).sent + SentTotal(Tail(cs))

\* generateRequestID: random bytes and the time in nanoseconds, an id no
\* earlier request has
generateRequestID(cs) == SentTotal(cs) + 1

\* the id of every response of the handler, agent.go lines 76-101
ResponseIDEmpty(req) == 0
ResponseID(req) == req.ID

\* the handler passed to startAgentIPCServer; failed: the script or the
\* file operation returned an error
handler(req, failed) ==
    CASE req.Command = "Ping" ->
            RPCResponse(ResponseID(req), TRUE, FALSE, "")
      [] req.Command = "Shutdown" ->
            RPCResponse(ResponseID(req), TRUE, FALSE, "")
      [] req.Command = "RunUserScript" ->
            IF failed THEN RPCResponse(ResponseID(req), FALSE, FALSE, "failed")
            ELSE RPCResponse(ResponseID(req), TRUE, req.DoNotWait, "")
      [] req.Command = "PlaceUserFile" ->
            IF failed THEN RPCResponse(ResponseID(req), FALSE, FALSE, "failed")
            ELSE RPCResponse(ResponseID(req), TRUE, FALSE, "")
      [] OTHER ->
            RPCResponse(ResponseID(req), FALSE, FALSE, "unknown command")

\* commands whose handler runs an operation that can fail
CanFail(req) == req.Command \in {"RunUserScript", "PlaceUserFile"}

\* where the serving goroutine is after encoder.Encode: it returns and the
\* deferred c.Close() runs
AfterEncodeLoops == "accepted"
AfterEncode == "closed"

\* callAgent, lines 73-80: the response is returned only if it echoes the id
callAgentResult(req, resp) ==
    IF resp.ID # req.ID THEN "mismatched response id"
    ELSE IF resp.OK THEN "ok" ELSE "not ok"

\* waitForAgentSocket, line 43
TimedOutAtOnce(elapsed, timeout) == TRUE
TimedOut(elapsed, timeout) == elapsed > timeout

\* position of the driver after the request was written: it reads the
\* response on the same connection
AfterRequestNoWait == "loop"
AfterRequest == "receive"

IpcStart(pr, pc, timeout, its) ==
    /\ apc = "down"
    /\ closers = 0
    /\ doneClosed = FALSE
    /\ conns = <<>>
    /\ peer = pr
    /\ upc = pc
    /\ wtimeout = timeout
    /\ welapsed = 0
    /\ wret = "none"
    /\ witems = its
    /\ widx = 0
    /\ wcmd = "none"
    /\ wcur = 0
    /\ wphase = "none"

IpcIdle == IpcStart("none", "idle", 0, <<>>)

\* before the helper starts, nothing or a stale listener is on the path
AgentInit == \E pr \in {"none", "other"} : IpcStart(pr, "idle", 0, <<>>)

DelegatedTypes == {"userscript", "userfile"}
DriverItems == SeqsUpTo(DelegatedTypes \cup {"package"}, MaxCalls)

IpcInit ==
    \E timeout \in 0..MaxWaitTimeout, its \in DriverItems :
        IpcStart("none", "uid", timeout, its)

\* ---- the helper ----

\* the end of the helper process ends the goroutines of its connections
Killed(cs) ==
    [c \in DOMAIN cs |->
        IF cs[c].server = "helper" /\ cs[c].srv # "closed"
        THEN [cs[c] EXCEPT !.srv = "killed"]
        ELSE cs[c]]

\* startAgentIPCServer, lines 19-45: a stale socket is removed and the
\* helper listens on the path
AgentListen ==
    /\ apc = "down"
    /\ apc' = "serving"
    /\ peer' = "helper"
    /\ UNCHANGED <<closers, doneClosed, conns, driverIpcVars>>
    /\ UNCHANGED <<driverVars, fetchVars, manyVars, runVars, loadVars, redirVars,
                 moreVars>>

\* l.Accept(), lines 49-56: a goroutine is started for the connection
Accept(c) ==
    /\ apc = "serving"
    /\ conns[c].server = "helper"
    /\ conns[c].srv = "queued"
    /\ conns' = [conns EXCEPT ![c].srv = "accepted"]
    /\ UNCHANGED <<apc, closers, doneClosed, peer, driverIpcVars>>
    /\ UNCHANGED <<driverVars, fetchVars, manyVars, runVars, loadVars, redirVars,
                 moreVars>>

\* decoder.Decode(&req), lines 61-70: a request, or EOF when the client
\* closed without writing one
Decode(c) ==
    /\ apc = "serving"
    /\ conns[c].srv = "accepted"
    /\ \/ /\ conns[c].inbox # <<>>
          /\ conns' = [conns EXCEPT ![c].req = Head(conns[c].inbox),
                                    ![c].inbox = Tail(conns[c].inbox),
                                    ![c].decoded = @ + 1,
                                    ![c].srv = "decoded"]
       \/ /\ conns[c].inbox = <<>>
          /\ conns[c].ceof
          /\ conns' = [conns EXCEPT ![c].srv = "closed"]
    /\ UNCHANGED <<apc, closers, doneClosed, peer, driverIpcVars>>
    /\ UNCHANGED <<driverVars, fetchVars, manyVars, runVars, loadVars, redirVars,
                 moreVars>>

\* resp := handler(req), line 73; the Shutdown case starts the goroutine
\* that closes done, agent.go line 79
Handle(c) ==
    /\ apc = "serving"
    /\ conns[c].srv = "decoded"
    /\ \E failed \in BOOLEAN :
          /\ failed => CanFail(conns[c].req)
          /\ conns' = [conns EXCEPT ![c].resp = handler(conns[c].req, failed),
                                    ![c].calls = @ + 1,
                                    ![c].srv = "handled"]
    /\ closers' = IF conns[c].req.Command = "Shutdown" THEN closers + 1
                  ELSE closers
    /\ UNCHANGED <<apc, doneClosed, peer, driverIpcVars>>
    /\ UNCHANGED <<driverVars, fetchVars, manyVars, runVars, loadVars, redirVars,
                 moreVars>>

\* encoder.Encode(resp), lines 74-76, then the deferred c.Close(); the
\* write fails when the client has closed its end
Encode(c) ==
    /\ apc = "serving"
    /\ conns[c].srv = "handled"
    /\ conns' = [conns EXCEPT
                   ![c].outbox = IF conns[c].ceof THEN @
                                 ELSE Append(@, conns[c].resp),
                   ![c].srv = AfterEncode]
    /\ UNCHANGED <<apc, closers, doneClosed, peer, driverIpcVars>>
    /\ UNCHANGED <<driverVars, fetchVars, manyVars, runVars, loadVars, redirVars,
                 moreVars>>

\* go func() { close(done) }(), agent.go line 79; closing the closed
\* channel panics and ends the process
CloseDone ==
    /\ apc = "serving"
    /\ closers > 0
    /\ closers' = closers - 1
    /\ IF doneClosed
       THEN /\ apc' = "exited"
            /\ peer' = "none"
            /\ conns' = Killed(conns)
            /\ UNCHANGED doneClosed
       ELSE /\ doneClosed' = TRUE
            /\ UNCHANGED <<apc, conns, peer>>
    /\ UNCHANGED driverIpcVars
    /\ UNCHANGED <<driverVars, fetchVars, manyVars, runVars, loadVars, redirVars,
                 moreVars>>

\* <-done, agent.go line 110: RunAgent returns and the process ends with
\* every goroutine it still has
AgentExit ==
    /\ apc = "serving"
    /\ doneClosed
    /\ apc' = "exited"
    /\ peer' = "none"
    /\ conns' = Killed(conns)
    /\ UNCHANGED <<closers, doneClosed, driverIpcVars>>
    /\ UNCHANGED <<driverVars, fetchVars, manyVars, runVars, loadVars, redirVars,
                 moreVars>>

\* a listener that is not the helper answers a request it got
OtherRespond(c) ==
    /\ conns[c].server = "other"
    /\ conns[c].srv = "queued"
    /\ conns[c].inbox # <<>>
    /\ \E id \in 1..MaxRequests :
          conns' = [conns EXCEPT
                      ![c].inbox = <<>>,
                      ![c].outbox = Append(@, RPCResponse(id, TRUE, FALSE, "")),
                      ![c].srv = "closed"]
    /\ UNCHANGED <<apc, closers, doneClosed, peer, driverIpcVars>>
    /\ UNCHANGED <<driverVars, fetchVars, manyVars, runVars, loadVars, redirVars,
                 moreVars>>

\* ---- clients of the socket ----

\* net.DialTimeout on the listening socket, callAgent line 58 or any other
\* process; of the connections to a stale listener only those of callAgent
\* are followed
ClientDial(kind) ==
    /\ upc = "idle"
    /\ peer # "none"
    /\ peer = "other" => kind = "call"
    /\ Len(conns) < MaxConns
    /\ conns' = Append(conns, Conn(kind, peer))
    /\ UNCHANGED <<apc, closers, doneClosed, peer, driverIpcVars>>
    /\ UNCHANGED <<driverVars, fetchVars, manyVars, runVars, loadVars, redirVars,
                 moreVars>>

\* enc.Encode(req), callAgent line 70, once; a raw client writes as often
\* as it likes
ClientSend(c, command) ==
    /\ upc = "idle"
    /\ ~conns[c].ceof
    /\ conns[c].got = "none"
    /\ conns[c].kind = "call" => conns[c].sent = 0
    /\ SentTotal(conns) < MaxRequests
    /\ LET req == RPCRequest(generateRequestID(conns), command, FALSE)
       IN  conns' = [conns EXCEPT ![c].inbox = Append(@, req),
                                 ![c].sent = @ + 1,
                                 ![c].creq = req]
    /\ UNCHANGED <<apc, closers, doneClosed, peer, driverIpcVars>>
    /\ UNCHANGED <<driverVars, fetchVars, manyVars, runVars, loadVars, redirVars,
                 moreVars>>

\* what dec.Decode(&resp) of callAgent, lines 73-80, can give on connection
\* c: the response, EOF after the server end is gone, or the deadline
Received(c) ==
    {callAgentResult(conns[c].creq, conns[c].outbox[1]) :
        x \in {y \in {1} : conns[c].outbox # <<>>}}
    \cup {"decode error" :
        x \in {y \in {1} : /\ conns[c].outbox = <<>>
                           /\ conns[c].srv \in {"closed", "killed"}}}
    \cup {"decode error: deadline"}

\* callAgent, lines 73-80 with the deferred conn.Close()
ClientReceive(c) ==
    /\ upc = "idle"
    /\ conns[c].kind = "call"
    /\ conns[c].sent = 1
    /\ conns[c].got = "none"
    /\ \E res \in Received(c) :
          conns' = [conns EXCEPT ![c].got = res, ![c].ceof = TRUE]
    /\ UNCHANGED <<apc, closers, doneClosed, peer, driverIpcVars>>
    /\ UNCHANGED <<driverVars, fetchVars, manyVars, runVars, loadVars, redirVars,
                 moreVars>>

\* a raw client closes its end: a probe if it wrote nothing
ClientClose(c) ==
    /\ upc = "idle"
    /\ conns[c].kind = "raw"
    /\ ~conns[c].ceof
    /\ conns' = [conns EXCEPT ![c].ceof = TRUE]
    /\ UNCHANGED <<apc, closers, doneClosed, peer, driverIpcVars>>
    /\ UNCHANGED <<driverVars, fetchVars, manyVars, runVars, loadVars, redirVars,
                 moreVars>>

\* ---- the driver: processUserlandPhase from the readiness wait on ----

\* waitForAgentSocket, lines 28-31: the console user's uid
WaitUid ==
    /\ upc = "uid"
    /\ \E ok \in BOOLEAN :
          IF ok
          THEN /\ upc' = "probe"
               /\ UNCHANGED <<wret, wphase>>
          ELSE /\ wret' = "uid error"
               /\ wphase' = "agent readiness wait failed"
               /\ upc' = "returned"
    /\ UNCHANGED <<wtimeout, welapsed, witems, widx, wcmd, wcur>>
    /\ UNCHANGED <<agentVars, conns, peer>>
    /\ UNCHANGED <<driverVars, fetchVars, manyVars, runVars, loadVars, redirVars,
                 moreVars>>

\* waitForAgentSocket, lines 37-45: one probe; a connection that succeeds
\* is closed at once and the wait returns, a failed one is followed by the
\* check of the timeout
WaitProbe ==
    /\ upc = "probe"
    /\ IF peer # "none"
       THEN /\ conns' = Append(conns, [Conn("probe", peer) EXCEPT !.ceof = TRUE])
            /\ wret' = "ok"
            /\ widx' = 1
            /\ upc' = "loop"
            /\ UNCHANGED <<welapsed, wphase>>
       ELSE \E d \in 0..DialTimeout :
               /\ welapsed' = welapsed + d
               /\ IF TimedOut(welapsed', wtimeout)
                  THEN /\ wret' = "timeout"
                       /\ wphase' = "agent readiness wait failed"
                       /\ upc' = "returned"
                  ELSE /\ upc' = "sleep"
                       /\ UNCHANGED <<wret, wphase>>
               /\ UNCHANGED <<conns, widx>>
    /\ UNCHANGED <<wtimeout, witems, wcmd, wcur>>
    /\ UNCHANGED <<agentVars, peer>>
    /\ UNCHANGED <<driverVars, fetchVars, manyVars, runVars, loadVars, redirVars,
                 moreVars>>

\* waitForAgentSocket, line 46
WaitSleep ==
    /\ upc = "sleep"
    /\ welapsed' = welapsed + ProbeInterval
    /\ upc' = "probe"
    /\ UNCHANGED <<wtimeout, wret, witems, widx, wcmd, wcur, wphase>>
    /\ UNCHANGED <<agentVars, conns, peer>>
    /\ UNCHANGED <<driverVars, fetchVars, manyVars, runVars, loadVars, redirVars,
                 moreVars>>

\* processUserlandPhase, lines 349-391 and 409-410: the next item is
\* delegated or handled locally; after the last one Shutdown is requested
DriverNextItem ==
    /\ upc = "loop"
    /\ IF widx > Len(witems)
       THEN /\ wcmd' = "Shutdown"
            /\ upc' = "dial"
            /\ UNCHANGED <<widx, wphase>>
       ELSE IF witems[widx] \in DelegatedTypes
       THEN \E chowned \in BOOLEAN :
               IF chowned
               THEN /\ wcmd' = IF witems[widx] = "userscript"
                               THEN "RunUserScript" ELSE "PlaceUserFile"
                    /\ upc' = "dial"
                    /\ UNCHANGED <<widx, wphase>>
               ELSE /\ wphase' = "item failed"
                    /\ upc' = "returned"
                    /\ UNCHANGED <<widx, wcmd>>
       ELSE \E failed \in BOOLEAN :
               IF failed
               THEN /\ wphase' = "item failed"
                    /\ upc' = "returned"
                    /\ UNCHANGED <<widx, wcmd>>
               ELSE /\ widx' = widx + 1
                    /\ UNCHANGED <<upc, wcmd, wphase>>
    /\ UNCHANGED <<wtimeout, welapsed, wret, witems, wcur>>
    /\ UNCHANGED <<agentVars, conns, peer>>
    /\ UNCHANGED <<driverVars, fetchVars, manyVars, runVars, loadVars, redirVars,
                 moreVars>>

\* what the caller of callAgent does with its result: processUserScript
\* and processUserFile fail the phase unless the response is OK, the
\* result of the Shutdown request is ignored
CallReturn(res) ==
    IF wcmd = "Shutdown"
    THEN /\ wphase' = "nil"
         /\ upc' = "returned"
         /\ UNCHANGED widx
    ELSE IF res = "ok"
    THEN /\ widx' = widx + 1
         /\ upc' = "loop"
         /\ UNCHANGED wphase
    ELSE /\ wphase' = "item failed"
         /\ upc' = "returned"
         /\ UNCHANGED widx

\* callAgent, lines 58-62
CallDial ==
    /\ upc = "dial"
    /\ IF peer # "none"
       THEN /\ conns' = Append(conns, Conn("call", peer))
            /\ wcur' = Len(conns) + 1
            /\ upc' = "send"
            /\ UNCHANGED <<widx, wphase>>
       ELSE /\ CallReturn("failed to connect agent")
            /\ UNCHANGED <<conns, wcur>>
    /\ UNCHANGED <<wtimeout, welapsed, wret, witems, wcmd>>
    /\ UNCHANGED <<agentVars, peer>>
    /\ UNCHANGED <<driverVars, fetchVars, manyVars, runVars, loadVars, redirVars,
                 moreVars>>

\* callAgent, lines 54-56 and 66-72: the request gets a generated id and
\* is written
CallSend ==
    /\ upc = "send"
    /\ \E dnw \in BOOLEAN :
          /\ dnw => wcmd = "RunUserScript"
          /\ LET req == RPCRequest(generateRequestID(conns), wcmd, dnw)
             IN  conns' = [conns EXCEPT ![wcur].inbox = Append(@, req),
                                       ![wcur].sent = @ + 1,
                                       ![wcur].creq = req]
    /\ upc' = AfterRequest
    /\ UNCHANGED <<wtimeout, welapsed, wret, witems, widx, wcmd, wcur, wphase>>
    /\ UNCHANGED <<agentVars, peer>>
    /\ UNCHANGED <<driverVars, fetchVars, manyVars, runVars, loadVars, redirVars,
                 moreVars>>

\* callAgent, lines 73-80, and the return to processUserlandPhase
CallReceive ==
    /\ upc = "receive"
    /\ \E res \in Received(wcur) :
          /\ conns' = [conns EXCEPT ![wcur].got = res, ![wcur].ceof = TRUE]
          /\ CallReturn(res)
    /\ UNCHANGED <<wtimeout, welapsed, wret, witems, wcmd, wcur>>
    /\ UNCHANGED <<agentVars, peer>>
    /\ UNCHANGED <<driverVars, fetchVars, manyVars, runVars, loadVars, redirVars,
                 moreVars>>

(***************************************************************************)
(* Redirect policy of the download clients (Client.SetFollowRedirects,     *)
(* getBootstrap, setupBootstrapAndComponents)                              *)
(***************************************************************************)
MaxUrls == 2          \* URLs 1..MaxUrls known to the server

MaxRedirects == 10    \* redirects followed by net/http when CheckRedirect is nil

Urls == 1..MaxUrls

\* what the server answers for a URL: 200, 404, or 302 with a Location
HttpResponses ==
    {[status |-> st, location |-> 0] : st \in {200, 404}}
    \cup {[status |-> 302, location |-> u] : u \in Urls}
Servers == [Urls -> HttpResponses]

\* httpClient.Do: the response handed to downloadOnce; with CheckRedirect
\* nil redirects are followed, with ErrUseLastResponse the 3xx is returned
RECURSIVE Do(_, _, _, _)
Do(server, url, follow, hops) ==
    IF server[url].status = 302 /\ follow
    THEN IF hops >= MaxRedirects THEN 0
         ELSE Do(server, server[url].location, follow, hops + 1)
    ELSE server[url].status

\* downloadOnce: any status but 200 is an error (0: the request failed)
downloadOnceResult(status) ==
    IF status = 200 THEN "nil" ELSE "download failed"

NoClient == [kind |-> "none", followRedirects |-> FALSE]
SetFollowRedirects(c, follow) == [c EXCEPT !.followRedirects = follow]
NewClient == SetFollowRedirects([kind |-> "client", followRedirects |-> FALSE], FALSE)

\* DownloadFile with the client's policy; every attempt gets the same answer
DownloadFile(c, server, url) ==
    downloadOnceResult(Do(server, url, c.followRedirects, 0))

RedirStart(c, server, murl, iurl, pc) ==
    /\ hcfg = c
    /\ hserver = server
    /\ hmanifestUrl = murl
    /\ hitemUrl = iurl
    /\ hpc = pc
    /\ hbootstrapClient = NoClient
    /\ hdownloader = NoClient
    /\ hmanifestRes = "none"
    /\ hitemRes = "none"

RedirIdle ==
    RedirStart([JSONURL |-> FALSE, FollowRedirects |-> FALSE],
               [u \in Urls |-> [status |-> 200, location |-> 0]], 1, 1, "idle")

RedirInit ==
    \E c \in [JSONURL : BOOLEAN, FollowRedirects : BOOLEAN],
       server \in Servers, murl \in Urls, iurl \in Urls :
       RedirStart(c, server, murl, iurl, "getBootstrap")

\* getBootstrap, lines 235-256 and 274-281: the remote manifest is fetched
\* by a client of its own that gets cfg.FollowRedirects; an embedded
\* manifest is not fetched
GetBootstrapFetch ==
    /\ hpc = "getBootstrap"
    /\ IF hcfg.JSONURL
       THEN LET c == SetFollowRedirects(NewClient, hcfg.FollowRedirects)
            IN  /\ hbootstrapClient' = c
                /\ hmanifestRes' = DownloadFile(c, hserver, hmanifestUrl)
                /\ hpc' = IF DownloadFile(c, hserver, hmanifestUrl) = "nil"
                          THEN "components" ELSE "exited"
       ELSE /\ hpc' = "components"
            /\ UNCHANGED <<hbootstrapClient, hmanifestRes>>
    /\ UNCHANGED <<hcfg, hserver, hmanifestUrl, hitemUrl, hdownloader, hitemRes>>
    /\ UNCHANGED <<driverVars, fetchVars, manyVars, runVars, loadVars, ipcVars,
                 moreVars>>

\* setupBootstrapAndComponents, lines 190-197: the downloader of the items
CreateDownloader ==
    /\ hpc = "components"
    /\ hdownloader' = NewClient
    /\ hpc' = "phases"
    /\ UNCHANGED <<hcfg, hserver, hmanifestUrl, hitemUrl, hbootstrapClient,
                   hmanifestRes, hitemRes>>
    /\ UNCHANGED <<driverVars, fetchVars, manyVars, runVars, loadVars, ipcVars,
                 moreVars>>

\* the download of an item of a phase by the Manager's downloader
ItemFetch ==
    /\ hpc = "phases"
    /\ hitemRes' = DownloadFile(hdownloader, hserver, hitemUrl)
    /\ hpc' = "fetched"
    /\ UNCHANGED <<hcfg, hserver, hmanifestUrl, hitemUrl, hbootstrapClient,
                   hdownloader, hmanifestRes>>
    /\ UNCHANGED <<driverVars, fetchVars, manyVars, runVars, loadVars, ipcVars,
                 moreVars>>

(***************************************************************************)
(* Source of the manifest: Config.ReadFromProfile, the --jsonurl flag in   *)
(* main, getBootstrap                                                      *)
(***************************************************************************)
\* one settings dictionary of the document: the keys it has
Settings == [JSONURL : BOOLEAN, bootstrap : BOOLEAN]
NoSettings == [JSONURL |-> FALSE, bootstrap |-> FALSE]

\* the document: found or not, its shared settings, the settings of the
\* running mode, and its top-level bootstrap section (absent, without
\* items, or with items)
Prefs(found, shared, mode, top) ==
    [found |-> found, shared |-> shared, mode |-> mode, top |-> top]
NoPrefs == Prefs(FALSE, NoSettings, NoSettings, "absent")

NewConfig == [JSONURL |-> "", bootstrapConfig |-> FALSE]

\* applySettingsMap, lines 172-179 and 413-415
applySettingsMap(c, settings) ==
    [JSONURL |-> IF settings.JSONURL THEN "profile" ELSE c.JSONURL,
     bootstrapConfig |-> settings.bootstrap \/ c.bootstrapConfig]

ProfileResult(found, source) ==
    [ConfigFound |-> found, BootstrapSource |-> source]

ConflictError == "cannot have both JSONURL and bootstrap section"

\* determineBootstrapSource on the config after the settings were applied
determineBootstrapSource(c, prefs) ==
    LET hasJSONURL == c.JSONURL # ""
        hasBootstrapSection == prefs.top = "items" \/ c.bootstrapConfig
    IN  IF hasJSONURL /\ hasBootstrapSection
        THEN [source |-> "", err |-> ConflictError]
        ELSE IF hasJSONURL THEN [source |-> "json_url", err |-> "nil"]
        ELSE IF hasBootstrapSection THEN [source |-> "embedded", err |-> "nil"]
        ELSE [source |-> "none", err |-> "nil"]

\* ReadFromProfile: the config it leaves behind, its result and its error;
\* the settings are applied to the config in place before the source is
\* determined
ReadFromProfile(c, prefs) ==
    IF ~prefs.found
    THEN [cfg |-> c, result |-> ProfileResult(FALSE, "none"), err |-> "nil"]
    ELSE LET applied == applySettingsMap(applySettingsMap(c, prefs.shared),
                                         prefs.mode)
             d == determineBootstrapSource(applied, prefs)
         IN  [cfg |-> applied,
              result |-> ProfileResult(TRUE, d.source),
              err |-> d.err]

SourceStart(prefs, flag, pc) ==
    /\ sprefs = prefs
    /\ sflag = flag
    /\ spc = pc
    /\ scfg = NewConfig
    /\ sresult = ProfileResult(FALSE, "none")
    /\ sreadErr = "none"
    /\ ssource = "none"
    /\ serr = "none"
    /\ sphases = FALSE
    /\ sexit = -1

SourceIdle == SourceStart(NoPrefs, "unset", "idle")

SourceInit ==
    \E flag \in {"unset", "url", "empty"} :
       \/ SourceStart(NoPrefs, flag, "main")
       \/ \E shared \in Settings, mode \in Settings,
             top \in {"absent", "empty", "items"} :
             SourceStart(Prefs(TRUE, shared, mode, top), flag, "main")

\* main, lines 99-107: a failed read is a warning and the run goes on with
\* the config as ReadFromProfile left it
MainReadFromProfile ==
    /\ spc = "main"
    /\ LET r == ReadFromProfile(scfg, sprefs)
       IN  /\ scfg' = r.cfg
           /\ sreadErr' = r.err
           /\ sresult' = IF r.err # "nil" THEN ProfileResult(FALSE, "none")
                         ELSE r.result
    /\ spc' = "flags"
    /\ UNCHANGED <<sprefs, sflag, ssource, serr, sphases, sexit>>
    /\ UNCHANGED <<driverVars, fetchVars, manyVars, runVars, loadVars, ipcVars,
                   redirVars, standaloneVars, mgrVars>>

\* main, lines 116-122: an explicit --jsonurl replaces cfg.JSONURL
MainFlags ==
    /\ spc = "flags"
    /\ scfg' = IF sflag = "unset" THEN scfg
               ELSE [scfg EXCEPT !.JSONURL = IF sflag = "url" THEN "flag" ELSE ""]
    /\ spc' = "setup"
    /\ UNCHANGED <<sprefs, sflag, sresult, sreadErr, ssource, serr, sphases, sexit>>
    /\ UNCHANGED <<driverVars, fetchVars, manyVars, runVars, loadVars, ipcVars,
                   redirVars, standaloneVars, mgrVars>>

\* getBootstrap, line 235 and 274-281 with LoadBootstrapFromProfile lines
\* 428-450: which source is read, and the error when there is none
SourceOf(c, prefs) ==
    IF c.JSONURL # "" THEN [source |-> "url", err |-> "nil"]
    ELSE IF ~prefs.found
    THEN [source |-> "none", err |-> "no mobile config found"]
    ELSE IF c.bootstrapConfig \/ prefs.top # "absent"
    THEN [source |-> "embedded", err |-> "nil"]
    ELSE [source |-> "none", err |-> "no bootstrap section found"]

\* RunDaemon, lines 127-133: setupBootstrapAndComponents; the download or
\* the parse of the manifest may fail
SourceSetup ==
    /\ spc = "setup"
    /\ LET src == SourceOf(scfg, sprefs)
       IN  \E ok \in BOOLEAN :
              /\ ssource' = src.source
              /\ serr' = IF src.err # "nil" THEN src.err
                         ELSE IF ok THEN "nil" ELSE "failed to load bootstrap"
    /\ IF serr' # "nil"
       THEN /\ spc' = "exited"
            /\ sexit' = 1
       ELSE /\ spc' = "phases"
            /\ UNCHANGED sexit
    /\ UNCHANGED <<sprefs, sflag, scfg, sresult, sreadErr, sphases>>
    /\ UNCHANGED <<driverVars, fetchVars, manyVars, runVars, loadVars, ipcVars,
                   redirVars, standaloneVars, mgrVars>>

\* RunDaemon, lines 136-174: the phases and the exit
SourcePhases ==
    /\ spc = "phases"
    /\ sphases' = TRUE
    /\ spc' = "exited"
    /\ \E code \in {0, 1} : sexit' = code
    /\ UNCHANGED <<sprefs, sflag, scfg, sresult, sreadErr, ssource, serr>>
    /\ UNCHANGED <<driverVars, fetchVars, manyVars, runVars, loadVars, ipcVars,
                   redirVars, standaloneVars, mgrVars>>

(***************************************************************************)
(* Standalone run (runCompleteBootstrap)                                   *)
(***************************************************************************)
MaxStandaloneItems == 2   \* items per phase of the manifest

TEvent(kind, ph) == [kind |-> kind, phase |-> ph]

StandaloneStart(c, m, pc) ==
    /\ tcfg = c
    /\ tmanifest = m
    /\ tpc = pc
    /\ tphase = 1
    /\ tidx = 0
    /\ tlog = <<>>
    /\ tret = "none"
    /\ texit = -1

StandaloneIdle ==
    StandaloneStart([WithPreflight |-> FALSE], [p \in 1..3 |-> 0], "idle")

StandaloneInit ==
    \E w \in BOOLEAN, m \in [1..3 -> 0..MaxStandaloneItems] :
        /\ m[1] <= 1
        /\ StandaloneStart([WithPreflight |-> w], m, "setup")

\* the condition under which runCompleteBootstrap calls ProcessItems for a
\* phase, lines 198, 212 and 220
PhaseIsRun(c, m, p) ==
    IF Phases[p] = "preflight" THEN m[p] > 0 /\ c.WithPreflight
    ELSE m[p] > 0

\* runCompleteBootstrap, lines 192-195
StandaloneSetup ==
    /\ tpc = "setup"
    /\ \E ok \in BOOLEAN :
          IF ok
          THEN /\ tpc' = "check"
               /\ UNCHANGED tret
          ELSE /\ tpc' = "returned"
               /\ tret' = "failed to setup bootstrap and components"
    /\ UNCHANGED <<tcfg, tmanifest, tphase, tidx, tlog, texit>>
    /\ UNCHANGED <<driverVars, fetchVars, manyVars, runVars, loadVars, ipcVars,
                   redirVars, sourceVars, mgrVars>>

\* lines 198-200, 212-214, 220-222: the phase is entered or passed over;
\* after the last phase, lines 228-234, the process exits with code 0
StandaloneNextPhase ==
    /\ tpc = "check"
    /\ IF tphase > 3
       THEN /\ tpc' = "exited"
            /\ texit' = 0
            /\ tret' = "nil"
            /\ UNCHANGED <<tphase, tidx, tlog>>
       ELSE IF PhaseIsRun(tcfg, tmanifest, tphase)
       THEN /\ tpc' = "inphase"
            /\ tidx' = 0
            /\ tlog' = Append(tlog, TEvent("call", tphase))
            /\ UNCHANGED <<tphase, tret, texit>>
       ELSE /\ tphase' = tphase + 1
            /\ UNCHANGED <<tpc, tidx, tlog, tret, texit>>
    /\ UNCHANGED <<tcfg, tmanifest>>
    /\ UNCHANGED <<driverVars, fetchVars, manyVars, runVars, loadVars, ipcVars,
                   redirVars, sourceVars, mgrVars>>

\* Manager.ProcessItems dispatches the items of the phase one after the
\* other
StandaloneDispatch ==
    /\ tpc = "inphase"
    /\ tidx < tmanifest[tphase]
    /\ tidx' = tidx + 1
    /\ tlog' = Append(tlog, TEvent("dispatch", tphase))
    /\ UNCHANGED <<tpc, tcfg, tmanifest, tphase, tret, texit>>
    /\ UNCHANGED <<driverVars, fetchVars, manyVars, runVars, loadVars, ipcVars,
                   redirVars, sourceVars, mgrVars>>

\* ProcessItems returns: nil after the last item, an error at any point,
\* the preflight-success signal after the preflight script; lines 200-208,
\* 214-216, 222-224
StandalonePhaseReturn ==
    /\ tpc = "inphase"
    /\ \E res \in {"nil", "error", "preflight success"} :
          /\ res = "nil" => tidx = tmanifest[tphase]
          /\ res = "preflight success" =>
                (Phases[tphase] = "preflight" /\ tidx = 1)
          /\ tlog' = Append(tlog, TEvent("return", tphase))
          /\ CASE res = "nil" ->
                    /\ tphase' = tphase + 1
                    /\ tpc' = "check"
                    /\ UNCHANGED tret
               [] res = "preflight success" ->
                    /\ tpc' = "returned"
                    /\ tret' = "nil"
                    /\ UNCHANGED tphase
               [] res = "error" ->
                    /\ tpc' = "returned"
                    /\ tret' = "phase failed"
                    /\ UNCHANGED tphase
    /\ UNCHANGED <<tcfg, tmanifest, tidx, texit>>
    /\ UNCHANGED <<driverVars, fetchVars, manyVars, runVars, loadVars, ipcVars,
                   redirVars, sourceVars, mgrVars>>

\* RunStandalone, lines 53-67: the exit after runCompleteBootstrap returned
StandaloneExit ==
    /\ tpc = "returned"
    /\ tpc' = "exited"
    /\ texit' = IF tret = "nil" THEN 0 ELSE 1
    /\ UNCHANGED <<tcfg, tmanifest, tphase, tidx, tlog, tret>>
    /\ UNCHANGED <<driverVars, fetchVars, manyVars, runVars, loadVars, ipcVars,
                   redirVars, sourceVars, mgrVars>>

(***************************************************************************)
(* The phase engine with its cleanup tracker: one Manager used for          *)
(* preflight and setupassistant (processSystemPhases), the destination      *)
(* files of the items and the deletions made by the trackers                *)
(***************************************************************************)
MaxMgrItems == 2   \* items of preflight and setupassistant together

MgrPhases == {"preflight", "setupassistant"}
MgrTypes  == {"rootscript", "package", "userscript"}
MgrArch   == "arm64"  \* the host the skip_if filter of the engine reads

MgrKind(type, skipIf, file) == [Type |-> type, SkipIf |-> skipIf, File |-> file]

\* config.Item with its download fields; the name records phase and index
MgrItem(ph, i, k) ==
    [Name |-> <<ph, i>>, Type |-> k.Type, SkipIf |-> k.SkipIf,
     FailPolicy |-> "", DoNotWait |-> FALSE, PkgRequired |-> FALSE,
     URL |-> "u", File |-> k.File]

MgrKinds ==
    {MgrKind(t, "", f) : t \in MgrTypes, f \in Dests}
    \cup {MgrKind("rootscript", "arm64", "d1")}

MgrManifests ==
    {[ph \in MgrPhases |->
         IF ph = "preflight"
         THEN [i \in 1..Len(pre) |-> MgrItem(ph, i, pre[i])]
         ELSE [i \in 1..Len(setup) |-> MgrItem(ph, i, setup[i])]] :
        pre \in SeqsUpTo(MgrKinds, MaxMgrItems),
        setup \in SeqsUpTo(MgrKinds, MaxMgrItems)}

MgrConfigs ==
    [CleanupOnSuccess : BOOLEAN, CleanupOnFailure : BOOLEAN,
     KeepFailedFiles : BOOLEAN]

NoCleanupAll == [op |-> "none", phase |-> "none", before |-> << >>]

MgrStart(c, m, pc) ==
    /\ gpc = pc
    /\ gcfg = c
    /\ gmanifest = m
    /\ gphase = "preflight"
    /\ gitems = <<>>
    /\ gidx = 0
    /\ gtracker = NewCleanupTracker
    /\ gdl = NewCleanupTracker
    /\ gfiles = [p \in Dests |-> NoFile]
    /\ gtrackedIn = [ph \in MgrPhases |-> {}]
    /\ gfetched = {}
    /\ gdispatched = {}
    /\ gret = [ph \in MgrPhases |-> "none"]
    /\ gop = NoCleanupAll

MgrIdle ==
    MgrStart([CleanupOnSuccess |-> FALSE, CleanupOnFailure |-> FALSE,
              KeepFailedFiles |-> FALSE],
             [ph \in MgrPhases |-> <<>>], "idle")

\* setupBootstrapAndComponents made the Manager; processSystemPhases is
\* about to call it
MgrInit ==
    \E c \in MgrConfigs, m \in MgrManifests :
        /\ Len(m["preflight"]) + Len(m["setupassistant"]) <= MaxMgrItems
        /\ MgrStart(c, m, "call")

\* CleanupTracker.CleanupAll: os.Remove of every path of the map
CleanupAll(t, fs) ==
    [q \in DOMAIN fs |-> IF q \in DOMAIN t THEN NoFile ELSE fs[q]]

\* Manager.Cleanup: the files go when either cleanup flag is set
ManagerCleanup(c, t, fs) ==
    IF c.CleanupOnSuccess \/ c.CleanupOnFailure THEN CleanupAll(t, fs) ELSE fs

\* Manager.ProcessItems, lines 77-81
RECURSIVE TrackAll(_, _)
TrackAll(t, its) ==
    IF its = <<>> THEN t
    ELSE TrackAll(IF Head(its).File # "" THEN TrackFile(t, Head(its).File) ELSE t,
                  Tail(its))

\* how the download of one item ends: the file is complete, nothing was
\* written, or a cut body was left behind
DownloadOutcomes == {"ok", "failed", "failed partial"}

\* the tracker of DownloadMultipleWithCleanup after wg.Wait, the goroutines
\* taken in the order of the items
RECURSIVE DownloaderTracker(_, _, _)
DownloaderTracker(t, its, outs) ==
    IF its = <<>> THEN t
    ELSE LET item    == Head(its)
             tracked == IF item.URL # "" THEN TrackFile(t, item.File) ELSE t
             marked  == IF item.URL # "" /\ Head(outs) = "ok"
                        THEN MarkSuccess(tracked, item.File) ELSE tracked
         IN  DownloaderTracker(marked, Tail(its), Tail(outs))

\* the destinations after the downloads, before any cleanup
RECURSIVE Written(_, _, _)
Written(fs, its, outs) ==
    IF its = <<>> THEN fs
    ELSE LET item == Head(its)
             next == CASE item.URL = "" -> fs
                       [] Head(outs) = "ok" -> [fs EXCEPT ![item.File] = "c1"]
                       [] Head(outs) = "failed partial" ->
                              [fs EXCEPT ![item.File] = Partial]
                       [] OTHER -> fs
         IN  Written(next, Tail(its), Tail(outs))

MgrReturn(ph, res) ==
    /\ gret' = [gret EXCEPT ![ph] = res]
    /\ gpc' = "returned"

\* Manager.ProcessItems, lines 34-81: empty phase, phase restrictions,
\* skip_if filter, TrackFile of every destination
MgrProcessItems ==
    /\ gpc = "call"
    /\ LET its  == gmanifest[gphase]
           kept == FilterItems(its, MgrArch)
       IN  IF Len(its) = 0
           THEN MgrReturn(gphase, "nil")
                /\ UNCHANGED <<gitems, gtracker, gtrackedIn>>
           ELSE IF ~validatePhaseRestrictions(its, gphase)
           THEN MgrReturn(gphase, "invalid item")
                /\ UNCHANGED <<gitems, gtracker, gtrackedIn>>
           ELSE IF Len(kept) = 0
           THEN MgrReturn(gphase, "nil")
                /\ UNCHANGED <<gitems, gtracker, gtrackedIn>>
           ELSE /\ gitems' = kept
                /\ gtracker' = TrackAll(gtracker, kept)
                /\ gtrackedIn' =
                      [gtrackedIn EXCEPT ![gphase] =
                          {kept[i].File : i \in 1..Len(kept)} \ {""}]
                /\ gpc' = "download"
                /\ UNCHANGED gret
    /\ UNCHANGED <<gcfg, gmanifest, gphase, gidx, gdl, gfiles, gfetched,
                   gdispatched, gop>>
    /\ UNCHANGED <<driverVars, fetchVars, manyVars, runVars, loadVars, ipcVars,
                   redirVars, sourceVars, standaloneVars>>

\* Manager.ProcessItems, lines 83-102, with DownloadMultipleWithCleanup:
\* the downloads, the failure cleanup of the downloader, and the return when
\* a download failed
MgrDownload ==
    /\ gpc = "download"
    /\ \E outs \in [1..Len(gitems) -> DownloadOutcomes] :
          LET dt     == DownloaderTracker(NewCleanupTracker, gitems, outs)
              failed == {gitems[i].Name : i \in {j \in 1..Len(gitems) :
                                                    outs[j] # "ok"}}
              wrote  == Written(gfiles, gitems, outs)
          IN  /\ gdl' = dt
              /\ gfiles' = IF cleanupFailed(gcfg) /\ failed # {}
                           THEN Cleanup(dt, wrote) ELSE wrote
              /\ gfetched' = gfetched \cup ItemNames(gitems)
              /\ IF AnyDownloadFailed(failed)
                 THEN MgrReturn(gphase, "download failed") /\ UNCHANGED gidx
                 ELSE /\ gidx' = 1
                      /\ gpc' = "dispatch"
                      /\ UNCHANGED gret
    /\ UNCHANGED <<gcfg, gmanifest, gphase, gitems, gtracker, gtrackedIn,
                   gdispatched, gop>>
    /\ UNCHANGED <<driverVars, fetchVars, manyVars, runVars, loadVars, ipcVars,
                   redirVars, sourceVars, standaloneVars>>

\* Manager.ProcessItems, lines 109-154, with handlePreflightScript: the
\* handler of the next item; the preflight script ends the call whatever it
\* returns
MgrDispatch ==
    /\ gpc = "dispatch"
    /\ gidx <= Len(gitems)
    /\ LET item == gitems[gidx]
       IN  /\ gdispatched' = gdispatched \cup {item.Name}
           /\ IF item.Type = "rootscript" /\ gphase = "preflight"
              THEN \E run \in PreflightRuns :
                      LET res == handlePreflightScript(handlePreflightResult(run))
                      IN  /\ IF res = "preflight success"
                             THEN /\ gfiles' = ManagerCleanup(gcfg, gtracker, gfiles)
                                  /\ gop' = IF gcfg.CleanupOnSuccess \/
                                               gcfg.CleanupOnFailure
                                            THEN [op |-> "CleanupAll",
                                                  phase |-> gphase,
                                                  before |-> gfiles]
                                            ELSE gop
                             ELSE UNCHANGED <<gfiles, gop>>
                          /\ MgrReturn(gphase, res)
                          /\ UNCHANGED gidx
              ELSE \E op \in InstallOutcomes(item) :
                      /\ IF Failed(op) /\ handleItemError(item, op)
                         THEN MgrReturn(gphase, "item failed") /\ UNCHANGED gidx
                         ELSE /\ gidx' = gidx + 1
                              /\ UNCHANGED <<gpc, gret>>
                      /\ UNCHANGED <<gfiles, gop>>
    /\ UNCHANGED <<gcfg, gmanifest, gphase, gitems, gtracker, gdl, gtrackedIn,
                   gfetched>>
    /\ UNCHANGED <<driverVars, fetchVars, manyVars, runVars, loadVars, ipcVars,
                   redirVars, sourceVars, standaloneVars>>

\* Manager.ProcessItems, lines 156-181: no item is do-not-wait, so the
\* drain is passed over; cleanup on success and the nil return
MgrComplete ==
    /\ gpc = "dispatch"
    /\ gidx > Len(gitems)
    /\ IF gcfg.CleanupOnSuccess
       THEN /\ gfiles' = CleanupAll(gtracker, gfiles)
            /\ gop' = [op |-> "CleanupAll", phase |-> gphase, before |-> gfiles]
       ELSE UNCHANGED <<gfiles, gop>>
    /\ MgrReturn(gphase, "nil")
    /\ UNCHANGED <<gcfg, gmanifest, gphase, gitems, gidx, gtracker, gdl,
                   gtrackedIn, gfetched, gdispatched>>
    /\ UNCHANGED <<driverVars, fetchVars, manyVars, runVars, loadVars, ipcVars,
                   redirVars, sourceVars, standaloneVars>>

\* processSystemPhases, lines 208-229: the same Manager is called for
\* setupassistant after preflight returned nil
MgrNextPhase ==
    /\ gpc = "returned"
    /\ IF gphase = "preflight" /\ RunGoesOn(gret[gphase])
       THEN /\ gphase' = "setupassistant"
            /\ gpc' = "call"
       ELSE /\ gpc' = "done"
            /\ UNCHANGED gphase
    /\ UNCHANGED <<gcfg, gmanifest, gitems, gidx, gtracker, gdl, gfiles,
                   gtrackedIn, gfetched, gdispatched, gret, gop>>
    /\ UNCHANGED <<driverVars, fetchVars, manyVars, runVars, loadVars, ipcVars,
                   redirVars, sourceVars, standaloneVars>>

MoreIdle == SourceIdle /\ StandaloneIdle /\ MgrIdle

SideIdle == LoadIdle /\ IpcIdle /\ RedirIdle /\ MoreIdle

(***************************************************************************)
(* Specifications                                                          *)
(***************************************************************************)
InitDriver == DriverInit /\ FetchIdle /\ ManyIdle /\ RunIdle /\ SideIdle
NextDriver ==
    \/ Tick
    \/ RunDaemonGateDenied
    \/ RunDaemonStart
    \/ RunDaemonSetup
    \/ RunDaemonSystemPhases
    \/ RunDaemonUserland
    \/ Restart
SpecDriver == InitDriver /\ [][NextDriver]_vars

\* the driver runs to its exit and the supervisor starts it again
FairDriver ==
    /\ WF_vars(RunDaemonGateDenied)
    /\ WF_vars(RunDaemonStart)
    /\ WF_vars(RunDaemonSetup)
    /\ WF_vars(RunDaemonSystemPhases)
    /\ WF_vars(RunDaemonUserland)
    /\ WF_vars(Restart)
SpecDriverFair == SpecDriver /\ FairDriver

DriverIdle ==
    /\ retryRec = NoRecord
    /\ now = 0
    /\ dpc = "idle"
    /\ exitCode = 0
    /\ gated = FALSE
    /\ entryRec = NoRecord
    /\ storeOp = NoOp
    /\ loaded = FALSE
    /\ phasesRun = {}
    /\ outcome = "none"
    /\ streak = -1

InitFetch == FetchInit /\ DriverIdle /\ ManyIdle /\ RunIdle /\ SideIdle
NextFetch ==
    \/ FetchCall
    \/ RetrySleep
    \/ DownloadOnce
    \/ VerifySaved
SpecFetch == InitFetch /\ [][NextFetch]_vars

InitFetchMany == ManyInit /\ DriverIdle /\ FetchIdle /\ RunIdle /\ SideIdle
NextFetchMany ==
    \/ DownloadMultipleCall
    \/ \E i \in DOMAIN wpc : WorkerAcquire(i)
    \/ \E i \in DOMAIN wpc : WorkerFinish(i)
    \/ DownloadMultipleReturn
SpecFetchMany == InitFetchMany /\ [][NextFetchMany]_vars

\* the Go scheduler runs every goroutine that can run, and every
\* DownloadFileWithRetries returns
FairFetchMany ==
    /\ WF_vars(DownloadMultipleCall)
    /\ \A i \in 1..MaxItems : WF_vars(i \in DOMAIN wpc /\ WorkerAcquire(i))
    /\ \A i \in 1..MaxItems : WF_vars(i \in DOMAIN wpc /\ WorkerFinish(i))
    /\ WF_vars(DownloadMultipleReturn)
InitFetchManyFair ==
    ManyInitAnyConcurrency /\ DriverIdle /\ FetchIdle /\ RunIdle /\ SideIdle
SpecFetchManyFair ==
    InitFetchManyFair /\ [][NextFetchMany]_vars /\ FairFetchMany

InitRun == RunInit /\ DriverIdle /\ FetchIdle /\ ManyIdle /\ SideIdle
NextRun ==
    \/ ProcessItemsCall
    \/ ProcessItemsDownload
    \/ DispatchBegin
    \/ ManagerDispatchReturn
    \/ DispatchLoopEnd
    \/ \E n \in DOMAIN pstate : ProcessExit(n)
    \/ \E n \in DOMAIN pstate : WaiterDone(n)
    \/ DrainReceive
    \/ DrainTimeout
    \/ DrainComplete
    \/ PhaseComplete
    \/ ProcessUserlandPhaseCall
    \/ ProcessUserlandPhaseDownload
    \/ WaitForAgentSocket
    \/ UserlandDispatchReturn
    \/ RunExit
SpecRun == InitRun /\ [][NextRun]_vars

InitEngine == EngineInit /\ DriverIdle /\ FetchIdle /\ ManyIdle /\ SideIdle
NextEngine ==
    \/ ProcessItemsCall
    \/ ProcessItemsDownload
    \/ DispatchBegin
    \/ ManagerDispatchReturn
    \/ DispatchLoopEnd
    \/ PhaseComplete
    \/ ProcessUserlandPhaseCall
    \/ RunExit
SpecEngine == InitEngine /\ [][NextEngine]_vars

InitLoad == LoadInit /\ DriverIdle /\ FetchIdle /\ ManyIdle /\ RunIdle
               /\ IpcIdle /\ RedirIdle /\ MoreIdle
NextLoad ==
    \/ SetupBootstrap
    \/ SetupReturn
SpecLoad == InitLoad /\ [][NextLoad]_vars

CoreIdle == DriverIdle /\ FetchIdle /\ ManyIdle /\ RunIdle

AgentSteps ==
    \/ AgentListen
    \/ \E c \in ConnIds : Accept(c)
    \/ \E c \in ConnIds : Decode(c)
    \/ \E c \in ConnIds : Handle(c)
    \/ \E c \in ConnIds : Encode(c)
    \/ CloseDone
    \/ AgentExit

InitAgent == AgentInit /\ CoreIdle /\ LoadIdle /\ RedirIdle /\ MoreIdle
NextAgent ==
    \/ AgentSteps
    \/ \E c \in ConnIds : OtherRespond(c)
    \/ \E kind \in {"call", "raw"} : ClientDial(kind)
    \/ \E c \in ConnIds, command \in Commands : ClientSend(c, command)
    \/ \E c \in ConnIds : ClientReceive(c)
    \/ \E c \in ConnIds : ClientClose(c)
SpecAgent == InitAgent /\ [][NextAgent]_vars

InitIPC == IpcInit /\ CoreIdle /\ LoadIdle /\ RedirIdle /\ MoreIdle
NextIPC ==
    \/ AgentSteps
    \/ WaitUid
    \/ WaitProbe
    \/ WaitSleep
    \/ DriverNextItem
    \/ CallDial
    \/ CallSend
    \/ CallReceive
SpecIPC == InitIPC /\ [][NextIPC]_vars

InitRedirect == RedirInit /\ CoreIdle /\ LoadIdle /\ IpcIdle /\ MoreIdle
NextRedirect ==
    \/ GetBootstrapFetch
    \/ CreateDownloader
    \/ ItemFetch
SpecRedirect == InitRedirect /\ [][NextRedirect]_vars

InitSource == SourceInit /\ CoreIdle /\ LoadIdle /\ IpcIdle /\ RedirIdle
                 /\ StandaloneIdle /\ MgrIdle
NextSource ==
    \/ MainReadFromProfile
    \/ MainFlags
    \/ SourceSetup
    \/ SourcePhases
SpecSource == InitSource /\ [][NextSource]_vars

InitStandalone == StandaloneInit /\ CoreIdle /\ LoadIdle /\ IpcIdle /\ RedirIdle
                     /\ SourceIdle /\ MgrIdle

InitManager == MgrInit /\ CoreIdle /\ LoadIdle /\ IpcIdle /\ RedirIdle
                  /\ SourceIdle /\ StandaloneIdle
NextManager ==
    \/ MgrProcessItems
    \/ MgrDownload
    \/ MgrDispatch
    \/ MgrComplete
    \/ MgrNextPhase
SpecManager == InitManager /\ [][NextManager]_vars
NextStandalone ==
    \/ StandaloneSetup
    \/ StandaloneNextPhase
    \/ StandaloneDispatch
    \/ StandalonePhaseReturn
    \/ StandaloneExit
SpecStandalone == InitStandalone /\ [][NextStandalone]_vars

(***************************************************************************)
(* Properties of the driver and the retry store (SpecDriver)               *)
(***************************************************************************)
FailedRun  == dpc = "exited" /\ ~gated /\ exitCode # 0
SuccessRun == dpc = "exited" /\ ~gated /\ exitCode = 0

\* C1: a run that passed the gate and exits non-zero leaves the count exactly
\* one above the count found at entry (absent counted as 0).
C1_FailedRunCountsOnce ==
    FailedRun => GetRetryCount(retryRec) = GetRetryCount(entryRec) + 1

\* C2: a run that passed the gate and exits 0 (all phases done, or the
\* preflight-success short-circuit) leaves no retry record.
C2_SuccessClearsRecord ==
    SuccessRun => retryRec = NoRecord

C5_IncrementByOne ==
    [][storeOp'.op = "increment" =>
          /\ retryRec'.kind = "record"
          /\ retryRec'.LastTry = now
          /\ retryRec'.Reason = storeOp'.reason
          /\ IF retryRec.kind = "record"
             THEN /\ retryRec'.Count = retryRec.Count + 1
                  /\ retryRec'.FirstTry = retryRec.FirstTry
             ELSE /\ retryRec'.Count = 1
                  /\ retryRec'.FirstTry = now]_vars

C5_Witness ==
    /\ storeOp.op = "increment"
    /\ retryRec.kind = "record"
    /\ retryRec.Count >= 2
    /\ retryRec.FirstTry < retryRec.LastTry
    /\ retryRec.Reason = "setup failed"

(***************************************************************************)
(* Properties of the concurrent downloader (SpecFetchMany)                 *)
(***************************************************************************)
\* C6: one result per item, and the result at index k is the result of
\* items[k], whatever the order in which the downloads finish.
C6_ResultsInInputOrder ==
    /\ mpc \in {"waiting", "returned"} => DOMAIN results = DOMAIN items
    /\ \A k \in DOMAIN wpc :
          wpc[k] = "done" => results[k] = DownloadResult(items[k], werr[k])
    /\ mpc = "returned" => \A k \in DOMAIN items : wpc[k] = "done"

C6_Witness ==
    /\ mpc = "returned"
    /\ Len(doneOrder) >= 2
    /\ doneOrder[1] > doneOrder[2]
    /\ werr[doneOrder[1]] # werr[doneOrder[2]]

\* C7: with max-concurrency n >= 1 at most n downloads are in flight.
C7_BoundedInFlight ==
    maxConc >= 1 => Cardinality(InFlight) <= maxConc

C7_Witness ==
    /\ maxConc >= 1
    /\ Cardinality(InFlight) = maxConc
    /\ \E i \in DOMAIN wpc : wpc[i] = "spawned"

HashMismatch(k) == werr[k] = "hash mismatch"

\* C9: a hash mismatch with keep-failed unset means the destination is gone
\* when fetch-many returns, for every setting of the other cleanup options.
C9_MismatchAlwaysRemoved ==
    mpc = "returned" =>
        \A k \in DOMAIN items :
            (HashMismatch(k) /\ ~cfg.KeepFailedFiles) =>
                files[items[k].File] = NoFile

SharedWithSuccess(k) ==
    \E j \in DOMAIN items :
        /\ items[j].File = items[k].File
        /\ items[j].URL # ""
        /\ werr[j] = "nil"

\* C9 (amended): a hash mismatch with cleanup-on-failure set and keep-failed
\* unset, on a destination that no successfully downloaded item of the call
\* shares, means the destination is gone when fetch-many returns.
C9_MismatchRemovedWhenCleanupOn ==
    mpc = "returned" =>
        \A k \in DOMAIN items :
            (/\ HashMismatch(k)
             /\ cfg.CleanupOnFailure
             /\ ~cfg.KeepFailedFiles
             /\ ~SharedWithSuccess(k)) =>
                files[items[k].File] = NoFile

C9_Witness ==
    /\ mpc = "returned"
    /\ cfg.CleanupOnFailure
    /\ ~cfg.KeepFailedFiles
    /\ \E k \in DOMAIN items :
          /\ HashMismatch(k)
          /\ ~SharedWithSuccess(k)
          /\ files[items[k].File] = NoFile
          /\ \E j \in DOMAIN items : werr[j] = "nil" /\ items[j].URL # ""

(***************************************************************************)
(* Properties of the single fetch (SpecFetch)                              *)
(***************************************************************************)
\* C8: a fetch of an item with a hash reports success only when the saved file,
\* which is the body just downloaded, has the digest the item names.
C8_SuccessImpliesDigest ==
    (fpc = "done" /\ fresult = "nil" /\ freq.hash # "") =>
        /\ ffile \in Contents
        /\ ffile = fserved
        /\ Digest(ffile) = freq.hash

C8_Witness ==
    /\ fpc = "done"
    /\ fresult = "nil"
    /\ freq.hash = "aa"
    /\ fcalls >= 2

\* C10: a hash mismatch counts as a failed attempt and is retried, so a fetch
\* ends in a hash mismatch only when every attempt was used.
C10_MismatchIsRetried ==
    (fpc = "done" /\ fresult = "hash mismatch") => fcalls = fretries + 1

\* C10 (amended): only the download is retried. The hash is verified once,
\* after the first attempt whose download succeeds; a mismatch ends the fetch
\* at once, and the fetch succeeds only if that one verification passes.
C10_VerifiedOnceAfterRetry ==
    /\ fverifies <= 1
    /\ fokDownloads <= 1
    /\ fverifies = 1 => (fpc = "done" /\ fokDownloads = 1)
    /\ fresult \in {"nil", "hash mismatch"} => fverifies = 1
    /\ fresult = "hash mismatch" => Digest(fserved) # freq.hash
    /\ (fpc = "done" /\ fokDownloads = 1 /\ freq.hash # "" /\ Digest(fserved) # freq.hash)
          => fresult = "hash mismatch"

C10_Witness ==
    /\ fpc = "done"
    /\ fresult = "hash mismatch"
    /\ fcalls < fretries + 1

\* C11 as stated: with per-item retries r the fetch makes at most r + 1
\* download attempts, and a failure is reported only after r + 1 failed
\* attempts.
C11_AtMostRetriesPlusOne ==
    /\ fcalls <= freq.retries + 1
    /\ fresult = "failed after attempts" => fcalls = freq.retries + 1

\* C11: with e the effective retries (the per-item value, or the client
\* default when the per-item value is 0) the fetch makes at most e + 1
\* download attempts; the first attempt follows no sleep and each later
\* attempt follows exactly one sleep; no attempt follows a successful one;
\* the retry loop reports failure only after e + 1 failed attempts.
C11_AttemptsWithinEffectiveRetries ==
    fpc # "call" =>
        /\ fretries = (IF freq.retries = 0 THEN freq.defaultRetries ELSE freq.retries)
        /\ fcalls <= fretries + 1
        /\ fslept = (IF fpc = "op" \/ fcalls = 0 THEN fcalls ELSE fcalls - 1)
        /\ fokDownloads <= 1
        /\ fokDownloads = 1 => fpc \in {"verify", "done"}
        /\ fresult = "failed after attempts" =>
               fcalls = fretries + 1 /\ fokDownloads = 0

C11_Witness ==
    /\ fpc = "done"
    /\ freq.retries = 0
    /\ fresult = "failed after attempts"
    /\ fcalls = freq.defaultRetries + 1
    /\ fslept = freq.defaultRetries

(***************************************************************************)
(* Properties of the phases of a run (SpecRun, SpecEngine)                 *)
(***************************************************************************)
Events == 1..Len(dispatchLog)
EventsOf(ph) == {i \in Events : dispatchLog[i].name[1] = ph}
PhaseIndex(ph) ==
    CASE ph = "preflight" -> 1 [] ph = "setupassistant" -> 2 [] OTHER -> 3

\* C12: if the download of any item of a phase failed, the phase returned a
\* download failure and no item of that phase was dispatched, the items
\* whose own download succeeded included.
C12_DownloadFailureDispatchesNothing ==
    \A n \in dlFailed :
        /\ phaseRet[n[1]] = "download failed"
        /\ EventsOf(n[1]) = {}

C12_Witness ==
    /\ rpc = "exited"
    /\ runExit = 1
    /\ \E n \in dlFailed, m \in fetched \ dlFailed :
          /\ n[1] = "userland"
          /\ m[1] = "userland"

\* C13: in every phase the dispatches follow the manifest order, and a
\* dispatch begins only when every earlier dispatch has returned: the log
\* alternates begin and return of one item, with the items in the order of
\* the phases and of their manifest index.
C13_DispatchInOrderOneAtATime ==
    /\ \A i \in Events :
          IF i % 2 = 1
          THEN dispatchLog[i].ev = "begin"
          ELSE /\ dispatchLog[i].ev = "return"
               /\ dispatchLog[i].name = dispatchLog[i - 1].name
    /\ \A i, j \in Events :
          (i < j /\ dispatchLog[i].ev = "begin" /\ dispatchLog[j].ev = "begin") =>
              LET a == dispatchLog[i].name
                  b == dispatchLog[j].name
              IN  \/ PhaseIndex(a[1]) < PhaseIndex(b[1])
                  \/ a[1] = b[1] /\ a[2] < b[2]

C13_Witness ==
    /\ Len(dispatchLog) = 4
    /\ dispatchLog[1].name = <<"userland", 1>>
    /\ dispatchLog[3].name = <<"userland", 2>>
    /\ ItemOf(<<"userland", 1>>).Type = "userscript"
    /\ ItemOf(<<"userland", 2>>).Type = "package"

C15_UserlandHonoursFailPolicy ==
    \A i \in EventsOf("userland") :
        LET e == dispatchLog[i]
        IN  (/\ e.ev = "return"
             /\ ItemOf(e.name).Type = "userscript"
             /\ GetEffectiveFailPolicy(ItemOf(e.name)) = "failable_execution"
             /\ e.op = "script execution") => ~e.stop

\* C16 as stated: in every phase an item whose skip_if matches the host is
\* neither downloaded nor dispatched.
C16_SkippedItemUntouched ==
    \A n \in AllItemNames(manifest) :
        ShouldSkipItem(ItemOf(n).SkipIf, hostArch) =>
            /\ n \notin fetched
            /\ \A i \in Events : dispatchLog[i].name # n

\* C17: with tracking, a phase of the phase engine that returned success
\* has no process of its own left running, a phase that returned success or
\* a drain failure has no process left in the table, and a drain waits
\* only for processes started in its own phase.
C17_PhaseDrainsItsOwnProcesses ==
    /\ \A ph \in {"preflight", "setupassistant"} :
          /\ phaseRet[ph] = "nil" =>
                \A n \in DOMAIN pstate :
                    n[1] = ph => pstate[n] \in {"none", "exited ok"}
          /\ phaseRet[ph] \in {"nil", "background failed"} =>
                \A i \in 1..Len(processes) : processes[i][1] # ph
    /\ rpc = "draining" => \A i \in 1..Len(snapshot) : snapshot[i][1] = phaseName

C17_Witness ==
    /\ trackBackgroundProcesses
    /\ phaseRet["setupassistant"] = "nil"
    /\ <<"setupassistant", 1>> \in DOMAIN pstate
    /\ pstate[<<"setupassistant", 1>>] = "exited ok"
    /\ rpc = "draining"
    /\ phaseName = "userland"

\* C18 as stated: when the timeout fires before all tracked processes have
\* exited, the count of the timeout error is the number of processes that
\* had not exited, these are killed and the table is cleared.
C18_TimeoutCountsSurvivors ==
    (drainRet.how = "timeout" /\ drainRet.survivors # {}) =>
        /\ drainRet.count = Cardinality(drainRet.survivors)
        /\ \A n \in drainRet.survivors : pstate[n] = "killed"
        /\ processes = <<>>

\* C19: whatever its fail policy, a preflight script that exits 0 gives the
\* preflight-success signal, one that exits non-zero gives a nil phase
\* result and the run goes on to the next phase, and one that cannot be
\* started gives an error that ends the run with exit code 1.
C19_PreflightResult ==
    preflightRun # NotRun =>
        /\ preflightRun = 0 => phaseRet["preflight"] = "preflight success"
        /\ preflightRun > 0 =>
              /\ phaseRet["preflight"] = "nil"
              /\ phaseName \in {"setupassistant", "userland"}
              /\ runResult \notin {"preflight success", "preflight script failed"}
        /\ preflightRun = SpawnFailed =>
              /\ phaseRet["preflight"] = "preflight script failed"
              /\ runResult = "preflight script failed"
              /\ rpc \in {"exiting", "exited"}
              /\ rpc = "exited" => runExit = 1

C19_Witness ==
    /\ preflightRun = MaxExitCode
    /\ manifest.preflight[1].FailPolicy = "failure_is_not_an_option"
    /\ EventsOf("setupassistant") # {}
    /\ rpc = "exited"
    /\ runExit = 0

\* C20: once the preflight script has exited 0, nothing of setupassistant
\* or userland is downloaded or dispatched, the run only goes to its exit,
\* and it exits with system cleanup and code 0.
C20_PreflightSuccessEndsRun ==
    preflightRun = 0 =>
        /\ \A n \in fetched : n[1] = "preflight"
        /\ \A i \in Events : dispatchLog[i].name[1] = "preflight"
        /\ rpc \in {"exiting", "exited"}
        /\ rpc = "exited" => (runExit = 0 /\ sysCleanup)

C20_Witness ==
    /\ preflightRun = 0
    /\ rpc = "exited"
    /\ Len(manifest.setupassistant) > 0
    /\ Len(manifest.userland) > 0

(***************************************************************************)
(* Properties of the manifest loader (SpecLoad)                            *)
(***************************************************************************)
\* C21: every manifest accepted by the validator has at most one preflight
\* item, and every preflight item has type rootscript.
C21_AcceptedPreflight ==
    lvalid = "nil" =>
        /\ Len(ldoc.preflight) <= 1
        /\ \A i \in 1..Len(ldoc.preflight) :
              ldoc.preflight[i].Type = "rootscript"

\* the validator accepted a manifest that has a preflight item
C21_Witness ==
    /\ lvalid = "nil"
    /\ Len(ldoc.preflight) = 1
    /\ lpc = "phases"

\* C22: every manifest accepted by the validator has only package,
\* rootscript or rootfile items in setupassistant, and every item of every
\* phase has one of the five types and a fail policy that is empty or one
\* of the three known values.
C22_AcceptedItems ==
    lvalid = "nil" =>
        /\ \A i \in 1..Len(ldoc.setupassistant) :
              ldoc.setupassistant[i].Type \in {"package", "rootscript", "rootfile"}
        /\ \A p \in 1..3 : \A i \in 1..Len(ldoc[Phases[p]]) :
              /\ ldoc[Phases[p]][i].Type \in
                    {"package", "rootscript", "userscript", "rootfile", "userfile"}
              /\ ldoc[Phases[p]][i].FailPolicy \in
                    {"", "failure_is_not_an_option", "failable", "failable_execution"}

\* the validator accepted a manifest with a setupassistant item and a
\* user-context userland item that names a fail policy
C22_Witness ==
    /\ lvalid = "nil"
    /\ Len(ldoc.setupassistant) = 1
    /\ Len(ldoc.userland) = 1
    /\ ldoc.userland[1].Type = "userscript"
    /\ ldoc.userland[1].FailPolicy = "failable"

\* C23: with validation enabled a manifest that violates the manifest
\* invariants is rejected at load and no phase runs, whether it comes from
\* the remote document or from the managed configuration; with validation
\* skipped the manifest that was read is loaded unchanged.
C23_InvalidRejectedAtLoad ==
    LET Valid(doc) ==
            /\ Len(doc.preflight) <= 1
            /\ \A i \in 1..Len(doc.preflight) :
                  doc.preflight[i].Type = "rootscript"
            /\ \A i \in 1..Len(doc.setupassistant) :
                  doc.setupassistant[i].Type \in {"package", "rootscript", "rootfile"}
            /\ \A p \in 1..3 : \A i \in 1..Len(doc[Phases[p]]) :
                  /\ doc[Phases[p]][i].Type \in AllowedTypes
                  /\ doc[Phases[p]][i].FailPolicy \in FailPolicies
        read == ~lcfg.JSONURL \/ ldownload
    IN  (lpc # "setup" /\ ldoc.kind = "bootstrap" /\ read) =>
            /\ (~lcfg.SkipValidation /\ ~Valid(ldoc)) =>
                  (lerr # "nil" /\ ~lphases)
            /\ lcfg.SkipValidation =>
                  (lerr = "nil" /\ lbootstrap = Unmarshal(ldoc))

(***************************************************************************)
(* Properties of the readiness wait inside a run (SpecRun)                 *)
(***************************************************************************)
\* C27: no userland item, delegated or executed locally, is dispatched
\* before waitForAgentSocket has returned the socket path; if the wait
\* fails no userland item is dispatched and the run exits non-zero.
C27_NoDispatchBeforeReady ==
    /\ EventsOf("userland") # {} => sockPath # ""
    /\ (phaseName = "userland" /\ rpc \in {"call", "download", "agentwait"}) =>
          EventsOf("userland") = {}
    /\ phaseRet["userland"] = "agent wait failed" =>
          /\ EventsOf("userland") = {}
          /\ rpc = "exited" => runExit # 0

\* a delegated and a locally executed userland item were both dispatched
\* after the wait returned the socket path
C27_Witness ==
    /\ sockPath # ""
    /\ \E i, j \in EventsOf("userland") :
          /\ ItemOf(dispatchLog[i].name).Type = "userscript"
          /\ ItemOf(dispatchLog[j].name).Type = "package"

(***************************************************************************)
(* Properties of the helper and its clients (SpecAgent)                    *)
(***************************************************************************)
\* C24: every response the helper writes or is about to write carries the
\* id of the request it decoded on that connection, whatever the command
\* and the outcome; callAgent returns a response only if its id is the id
\* of the request it sent, and fails the call otherwise.
C24_ResponseEchoesId ==
    \A c \in ConnIds :
        /\ conns[c].server = "helper" =>
              /\ \A i \in 1..Len(conns[c].outbox) :
                    conns[c].outbox[i].ID = conns[c].req.ID
              /\ conns[c].srv = "handled" => conns[c].resp.ID = conns[c].req.ID
        /\ (conns[c].kind = "call" /\ conns[c].got \in {"ok", "not ok"}) =>
              /\ conns[c].outbox # <<>>
              /\ conns[c].outbox[1].ID = conns[c].creq.ID

\* the helper answered an unknown command, and a call that was answered
\* by another listener with a different id failed
C24_Witness ==
    \E c, d \in ConnIds :
        /\ conns[c].server = "helper"
        /\ conns[c].req.Command = "Reboot"
        /\ conns[c].outbox # <<>>
        /\ conns[d].kind = "call"
        /\ conns[d].outbox # <<>>
        /\ conns[d].outbox[1].ID # conns[d].creq.ID
        /\ conns[d].got = "mismatched response id"

\* C25: on every connection of the helper at most one request is decoded,
\* the handler is invoked at most once and at most one response is
\* written; a connection that is closed without a request written invokes
\* no handler and gets no response.
C25_OneRequestPerConnection ==
    \A c \in ConnIds :
        /\ conns[c].decoded <= 1
        /\ conns[c].calls <= 1
        /\ Len(conns[c].outbox) <= 1
        /\ conns[c].sent = 0 =>
              /\ conns[c].decoded = 0
              /\ conns[c].calls = 0
              /\ conns[c].outbox = <<>>

\* a probe was served to its end, and so was a connection on which two
\* requests were written
C25_Witness ==
    \E c, d \in ConnIds :
        /\ conns[c].server = "helper"
        /\ conns[c].sent = 0
        /\ conns[c].ceof
        /\ conns[c].srv = "closed"
        /\ conns[d].server = "helper"
        /\ conns[d].sent = 2
        /\ conns[d].srv = "closed"
        /\ Len(conns[d].outbox) = 1

\* C29: when the helper process has ended, every connection on which it
\* decoded a Shutdown request and whose client is still there has got the
\* ok response; and once that response is written the end of the process
\* is under way.
C29_ShutdownRespondsBeforeExit ==
    \A c \in ConnIds :
        (conns[c].server = "helper" /\ conns[c].req.Command = "Shutdown") =>
            /\ (apc = "exited" /\ ~conns[c].ceof) =>
                  /\ conns[c].outbox # <<>>
                  /\ conns[c].outbox[1].OK
            /\ conns[c].outbox # <<>> =>
                  (closers > 0 \/ doneClosed \/ apc = "exited")

(***************************************************************************)
(* Properties of the driver's side of the protocol (SpecIPC)               *)
(***************************************************************************)
\* C26: the readiness wait returns success exactly when a probe connected,
\* and any error it returns is the timeout error, returned with no probe
\* connected once the timeout has elapsed.
C26_ReadinessWait ==
    LET connected == \E c \in ConnIds : conns[c].kind = "probe"
    IN  /\ wret = "ok" <=> connected
        /\ wret \notin {"none", "ok"} =>
              /\ wret = "timeout"
              /\ welapsed >= wtimeout

\* C26 (amended): when the uid of the console user is known, the wait
\* returns success exactly when a probe connected, returns the timeout
\* error only with no probe connected and the timeout elapsed, and does
\* not go on probing after that; when the uid is not known it returns
\* that error at once without probing.
C26_ReadinessWaitOnceUidKnown ==
    LET connected == \E c \in ConnIds : conns[c].kind = "probe"
    IN  /\ wret = "ok" <=> connected
        /\ wret = "timeout" => welapsed >= wtimeout
        /\ wret = "uid error" => welapsed = 0
        /\ upc = "sleep" => welapsed <= wtimeout
        /\ upc = "probe" => welapsed <= wtimeout + ProbeInterval

\* the wait returned success after a probe had failed
C26_Witness ==
    /\ wret = "ok"
    /\ welapsed > 0
    /\ welapsed < wtimeout

\* C28: at most one request of the driver is outstanding, and a later
\* call is started only after every earlier one has returned a response
\* or an error.
C28_RequestsAreSerial ==
    /\ Cardinality({c \in ConnIds : /\ conns[c].kind = "call"
                                    /\ conns[c].sent > 0
                                    /\ conns[c].got = "none"}) <= 1
    /\ \A c, d \in ConnIds :
          (c < d /\ conns[c].kind = "call" /\ conns[d].kind = "call") =>
              conns[c].got # "none"

\* the request of a second item is outstanding after the first got its
\* response
C28_Witness ==
    \E c, d \in ConnIds :
        /\ c < d
        /\ conns[c].kind = "call"
        /\ conns[c].got = "ok"
        /\ conns[d].kind = "call"
        /\ conns[d].sent = 1
        /\ conns[d].got = "none"
        /\ conns[d].creq.Command # "Shutdown"

(***************************************************************************)
(* Properties of the redirect policy (SpecRedirect)                        *)
(***************************************************************************)
\* C30: cfg.FollowRedirects governs the manifest download and the item
\* downloads alike: when it is off a 302 answer fails the fetch, when it
\* is on the fetch has the outcome of the redirect target.
C30_OneRedirectPolicy ==
    LET Governed(res, url) ==
            hserver[url].status = 302 =>
                IF hcfg.FollowRedirects
                THEN res = downloadOnceResult(
                               Do(hserver, hserver[url].location, TRUE, 1))
                ELSE res = "download failed"
    IN  /\ hmanifestRes # "none" => Governed(hmanifestRes, hmanifestUrl)
        /\ hitemRes # "none" => Governed(hitemRes, hitemUrl)

(***************************************************************************)
(* The gate on an unreadable retry record (SpecDriver)                     *)
(***************************************************************************)
\* C37: a run that finds the retry record absent or unparsable passes the
\* gate (count read as 0), and its first increment writes a fresh record with
\* count 1 and first-try = now, whatever the old file held.
C37_UnreadableRecordCountsZero ==
    [][(dpc = "entry" /\ readRetryStateFails(retryRec) /\ dpc' # "entry") =>
          /\ ~gated'
          /\ dpc' = "setup"
          /\ storeOp'.op = "increment"
          /\ retryRec' = RetryState(1, now, now, storeOp'.reason)]_vars

C37_Witness ==
    /\ dpc = "setup"
    /\ entryRec = Corrupt
    /\ storeOp.op = "increment"
    /\ retryRec.kind = "record"
    /\ retryRec.Count = 1
    /\ retryRec.FirstTry = now
    /\ now > 0

(***************************************************************************)
(* Conflict of the manifest sources (SpecSource)                           *)
(***************************************************************************)
\* C31: with a JSONURL and a bootstrap section both configured for the
\* running mode in the managed configuration and no --jsonurl flag, no
\* manifest source is read, no phase runs, and the run ends non-zero with
\* the conflict error.
C31_ConflictFailsTheRun ==
    LET both == /\ sprefs.found
                /\ sprefs.shared.JSONURL \/ sprefs.mode.JSONURL
                /\ \/ sprefs.top = "items"
                   \/ sprefs.shared.bootstrap
                   \/ sprefs.mode.bootstrap
    IN  (both /\ sflag = "unset") =>
            /\ ssource = "none"
            /\ ~sphases
            /\ spc = "exited" => (sexit # 0 /\ serr = ConflictError)

(***************************************************************************)
(* Phases of a standalone run (SpecStandalone)                             *)
(***************************************************************************)
\* C32: a standalone run goes through the phases in the order preflight,
\* setupassistant, userland: no item of a phase is dispatched before every
\* earlier phase that was called has returned, and a run that went through
\* all phases without a failure or the preflight short-circuit has run
\* every non-empty phase of the manifest.
C32_StandaloneRunsAllPhases ==
    LET Called(p) == \E i \in 1..Len(tlog) : tlog[i] = TEvent("call", p)
        Ordered ==
            \A i \in 1..Len(tlog), j \in 1..Len(tlog) :
               i < j => tlog[i].phase <= tlog[j].phase
        Nested ==
            \A j \in 1..Len(tlog) :
               tlog[j].kind = "dispatch" =>
                  \A q \in 1..(tlog[j].phase - 1) :
                     Called(q) =>
                        \E i \in 1..(j - 1) : tlog[i] = TEvent("return", q)
    IN  /\ Ordered
        /\ Nested
        /\ (tpc = "exited" /\ tret = "nil" /\ tphase > 3) =>
              \A p \in 1..3 : tmanifest[p] > 0 => Called(p)

(***************************************************************************)
(* A fetch attempt whose body could not be written (SpecFetch)             *)
(***************************************************************************)
\* C33: when a fetch attempt has returned (the retry loop sleeps before the
\* next attempt, or the call is over), no partially written file is at the
\* destination: an attempt whose io.Copy failed has removed it.
C33_NoPartialFileAfterAttempt ==
    fpc \in {"sleep", "done"} => ffile # Partial

(***************************************************************************)
(* The failure cleanup of the concurrent downloader (SpecFetchMany)        *)
(***************************************************************************)
\* C39: for items with pairwise distinct destinations, the step in which
\* fetch-many returns removes the destination of every item whose download
\* failed if the failure cleanup runs, and leaves every other destination as
\* it was; an item without a url is reported successful, its destination is
\* not tracked and no file is written for it.
C39_CleanupRemovesExactlyFailed ==
    [][LET Distinct == \A j, k \in DOMAIN items :
                           j # k => items[j].File # items[k].File
           FailedAt(d) == \E k \in DOMAIN items :
                             items[k].File = d /\ results[k].Error # "nil"
           NoUrl(k) == items[k].URL = ""
       IN  Distinct =>
             /\ (mpc = "waiting" /\ mpc' = "returned") =>
                   \A d \in Dests :
                      IF cleanupFailed(cfg) /\ FailedAt(d)
                      THEN files'[d] = NoFile
                      ELSE files'[d] = files[d]
             /\ \A k \in DOMAIN wpc :
                   (NoUrl(k) /\ wpc[k] # "done" /\ wpc'[k] = "done") =>
                      /\ results'[k] = DownloadResult(items[k], "nil")
                      /\ files' = files
             /\ \A k \in DOMAIN items :
                   NoUrl(k) => items[k].File \notin DOMAIN tracker']_vars

C39_Witness ==
    /\ mpc = "returned"
    /\ cfg.CleanupOnFailure
    /\ ~cfg.KeepFailedFiles
    /\ Len(items) = 2
    /\ items[1].File # items[2].File
    /\ \E j, k \in DOMAIN items :
          /\ items[j].URL # ""
          /\ results[j].Error = "failed after attempts"
          /\ files[items[j].File] = NoFile
          /\ items[k].URL # ""
          /\ results[k].Error = "nil"
          /\ files[items[k].File] \in Contents

(***************************************************************************)
(* Termination of the concurrent downloader (SpecFetchManyFair)            *)
(***************************************************************************)
\* C40: if every single fetch returns, fetch-many returns, for every number
\* of items and every max-concurrency (zero, negative, or above the number
\* of items): every worker gets a semaphore slot and gives it back, and at
\* the return every result is filled in.
C40_FetchManyTerminates ==
    /\ <>(mpc = "returned")
    /\ [](mpc = "returned" =>
             /\ InFlight = {}
             /\ \A k \in DOMAIN items :
                   /\ wpc[k] = "done"
                   /\ results[k] # Unset)

C40_Witness ==
    /\ mpc = "returned"
    /\ maxConc < 0
    /\ Len(items) >= 2
    /\ Len(doneOrder) = Len(items)
    /\ \A k \in DOMAIN items : wpc[k] = "done" /\ results[k] # Unset

\* C34: the phase engine rejects, before any download or dispatch, a phase
\* with an item whose type is not allowed there: anything but a rootscript
\* in preflight, a userscript or userfile in setupassistant.  No item of
\* such a phase is handed to the downloader or to a handler, and the call
\* returns the restriction error.
C34_EngineRejectsDisallowedTypes ==
    LET Disallowed(ph) ==
            IF ph = "preflight" THEN MgrTypes \ {"rootscript"}
            ELSE {"userscript", "userfile"}
        HasDisallowed(ph) ==
            \E i \in 1..Len(gmanifest[ph]) :
                gmanifest[ph][i].Type \in Disallowed(ph)
    IN  \A ph \in MgrPhases :
            HasDisallowed(ph) =>
                /\ gret[ph] \in {"none", "invalid item"}
                /\ ~(gphase = ph /\ gpc \in {"download", "dispatch"})
                /\ \A i \in 1..Len(gmanifest[ph]) :
                       gmanifest[ph][i].Name \notin gfetched \cup gdispatched

\* C35: when ProcessItems returns nil for a phase and CleanupOnSuccess is
\* set, every destination tracked in that call is gone at the return; the
\* preflight call whose script exited non-zero is such a return.
C35_SuccessReturnCleansUp ==
    (gpc = "returned" /\ gret[gphase] = "nil" /\ gcfg.CleanupOnSuccess) =>
        \A p \in gtrackedIn[gphase] : gfiles[p] = NoFile

\* C38: the cleanup tracker never forgets a path.  No step removes a key
\* from the Manager's tracker, the tracker of a download still holds the
\* destination of every item with a URL after its MarkSuccess and Cleanup
\* calls, and a CleanupAll of the Manager leaves no file at any destination
\* tracked in this or an earlier phase.
C38_TrackerNeverForgets ==
    [][ /\ DOMAIN gtracker \subseteq DOMAIN gtracker'
        /\ \A ph \in MgrPhases : gtrackedIn'[ph] \subseteq DOMAIN gtracker'
        /\ gdl' # gdl =>
               \A i \in 1..Len(gitems) :
                   gitems[i].URL # "" => gitems[i].File \in DOMAIN gdl'
        /\ (gop' # gop /\ gop'.op = "CleanupAll") =>
               \A ph \in MgrPhases : \A p \in gtrackedIn'[ph] :
                   gfiles'[p] = NoFile ]_vars
C38_Witness ==
    /\ gop.op = "CleanupAll"
    /\ gop.phase = "setupassistant"
    /\ \E p \in gtrackedIn["preflight"] \ gtrackedIn["setupassistant"] :
          /\ gop.before[p] # NoFile
          /\ gfiles[p] = NoFile

\* C36: a userscript delegated to the agent with do-not-wait is awaited by
\* no drain.  It is never in the driver's process table, in the snapshot of
\* a drain or among the processes a drain killed; the agent holds it, if at
\* all, in a table made for that one request, which holds nothing else.
C36_DelegatedScriptNeverAwaited ==
    /\ \A n \in AllItemNames(manifest) :
          ItemOf(n).Type = "userscript" =>
              /\ n \notin Range(processes)
              /\ n \notin Range(snapshot)
              /\ n \notin signalled
              /\ n \notin drainRet.survivors
              /\ pstate[n] # "killed"
    /\ \A i \in 1..Len(runners) :
          /\ Len(runners[i]) <= 1
          /\ \A n \in Range(runners[i]) :
                 /\ ItemOf(n).Type = "userscript"
                 /\ ItemOf(n).DoNotWait
                 /\ \A j \in 1..Len(runners) : n \in Range(runners[j]) => j = i

\* the driver counted the delegated script, went through the end of the
\* userland phase (the Shutdown request included) and returned nil while
\* the script is still running in the agent's table
C36_Witness ==
    /\ trackBackgroundProcesses
    /\ agentTrack
    /\ phaseRet["userland"] = "nil"
    /\ backgroundProcessCount > 0
    /\ \E n \in AllItemNames(manifest) :
          /\ ItemOf(n).Type = "userscript"
          /\ ItemOf(n).DoNotWait
          /\ pstate[n] = "running"
          /\ \E i \in 1..Len(runners) : runners[i] = <<n>>

====
